---- MODULE Spec2Model ----
(***************************************************************************)
(* A model of the tabular AutoML core of build_and_grow2.0:                *)
(*   - the candidate trainers  (ml_engine/automl/tabular/*.py)             *)
(*   - the tabular preprocessor (ml_engine/preprocessing)                  *)
(*   - the problem type detector (backend/app/services)                    *)
(*   - the model packager and its generated loader (ml_engine/packaging)   *)
(* Each component has its own specification over its own variables; the    *)
(* variables of the other components stay at their initial values.         *)
(***************************************************************************)
EXTENDS Integers, Sequences, FiniteSets, TLC

(***************************************************************************)
(* Bounds of the model.                                                    *)
(***************************************************************************)
\* how many entries of a trainer's MODELS table the model keeps
RosterLen == 2
\* scores are integers; MaxScore stands for the score 1.0
MaxScore == 1
\* how many negative R2 values a regression candidate can score
NegScores == 1
\* the largest cluster count of a k-means sweep
MaxK == 3
\* the longest explicit models_to_train list
MaxRequestLen == 2

(***************************************************************************)
(* Program constants.                                                      *)
(***************************************************************************)
\* float('-inf'): below every score
NegInf == -1000
\* TabularClassifier.__init__: self.best_score = 0
ClassifierInitBest == 0

None == "None"

VARIABLES
  \* ---- one trainer instance (TabularClassifier / Regressor / Clusterer)
  kind,             \* which trainer class the instance is
  trained_models,   \* keys of self.trained_models
  best_model,       \* self.best_model: the estimator object, or NoModel
  best_model_name,  \* self.best_model_name
  best_score,       \* self.best_score
  results,          \* self.results
  pc,               \* position in train(): "idle", "loop", "kmeans", "return"
  models_to_train,  \* the local list train() walks (classifier, regressor)
  idx,              \* position of the for-loop in models_to_train
  n_clusters_range, \* the clusterer's sweep <<lo, hi>>
  include_dbscan,   \* the clusterer's include_dbscan argument
  n_clusters,       \* the k-means loop variable
  call,             \* "none", "first" (first train() of the instance), "later"
  ret,              \* outcome of the last train() call
  \* ---- one TabularPreprocessor instance
  encode_categorical,   \* constructor argument: "onehot" or "label"
  numeric_columns_,
  categorical_columns_,
  column_transformer_,  \* None, or the ColumnTransformer and its fitted encoder
  feature_names_out_,
  fit_completed,        \* history: some fit() of the instance has returned
  t_out,                \* outcome of the last transform() since the last fit()
  \* ---- one ProblemDetector(df, target_column).detect() call
  d_in,                 \* the table and target the detector was built on
  d_out,                \* what detect() gave
  \* ---- one run_training_pipeline() and the use of the package it made
  b_job,                \* problem type and table of the experiment
  b_preprocessor,       \* the pipeline's fitted TabularPreprocessor
  b_trainer,            \* the trainer in memory: best_model and, for a clusterer, scaler
  b_package,            \* the files of the package directory
  b_loaded,             \* what the loader's load_model() returned
  b_mem,                \* last prediction of the trainer in memory
  b_ld,                 \* last prediction of the loader's predict()
  \* ---- ModelPackager.package() calls of one packager
  fs,                   \* the directories under the packager's output_dir and their files
  clock,                \* the time, in ticks
  caller_metadata,      \* the metadata dict the caller holds
  p_calls,              \* package() calls made
  p_prev,               \* the package() call before the last
  p_last,                \* the last package() call
  \* ---- the training route: start_training, _run_training_task, cancel_training
  rt_pc,                \* where the training thread of the experiment is
  rt_experiment,        \* the Experiment row
  rt_problem_type,      \* problem_type of the task
  rt_idx,               \* position in models
  rt_best,              \* best_model, best_score and best_model_name of the task
  rt_all_results,       \* all_results of the task
  rt_cv,                \* for each completed candidate, its mean cross-validation score on the training split
  rt_packaged,           \* the estimator handed to package()
  \* ---- TabularPreprocessor._identify_columns
  ic_X,                 \* the frame given to _identify_columns
  ic_numeric,           \* numeric_columns_ after it
  ic_categorical,        \* categorical_columns_ after it
  \* ---- the columns of a frame at fit and at transform
  cp_kind,              \* which preprocessor: TabularPreprocessor or CombinedPreprocessor
  cp_fit,               \* what its fit kept: the columns and the scaler's means
  cp_out,                \* the last transform: its frame and its outcome
  \* ---- the imputer of the categorical pipeline
  categorical_strategy, \* the constructor's categorical_strategy
  statistics_,          \* the fitted imputer's value for the column
  im_out,                \* the last pass through the imputer: its column in and out
  \* ---- transform_target / inverse_transform_target
  target_encoder_,      \* the classes of the fitted LabelEncoder, or None
  tt_y,                 \* the target of the last transform_target
  tt_encoded,           \* what transform_target returned for it
  tt_back,               \* what inverse_transform_target made of that
  \* ---- explanation requests
  ex_env,               \* whether shap can be imported and whether its explainer raises
  ex_model,             \* the loaded model: its feature_importances_, if it has them
  ex_out,                \* the last response of an explanation request
  \* ---- two trainer instances and the class attribute MODELS
  XGBOOST_AVAILABLE,    \* whether xgboost could be imported
  class_MODELS,         \* the names in the class attribute MODELS
  instances,            \* per trainer instance: constructed, results, trained_models, best_model_name
  actor                 \* the instance that made the last step

trainerVars == <<kind, trained_models, best_model, best_model_name, best_score,
                 results, pc, models_to_train, idx, n_clusters_range,
                 include_dbscan, n_clusters, call, ret>>

prepVars == <<encode_categorical, numeric_columns_, categorical_columns_,
              column_transformer_, feature_names_out_, fit_completed, t_out>>

detectVars == <<d_in, d_out>>

bundleVars == <<b_job, b_preprocessor, b_trainer, b_package, b_loaded, b_mem, b_ld>>

packageVars == <<fs, clock, caller_metadata, p_calls, p_prev, p_last>>

routeVars == <<rt_pc, rt_experiment, rt_problem_type, rt_idx, rt_best, rt_all_results, rt_cv, rt_packaged>>

identifyVars == <<ic_X, ic_numeric, ic_categorical>>

columnsVars == <<cp_kind, cp_fit, cp_out>>

imputeVars == <<categorical_strategy, statistics_, im_out>>

targetVars == <<target_encoder_, tt_y, tt_encoded, tt_back>>

explainVars == <<ex_env, ex_model, ex_out>>

sharedVars == <<XGBOOST_AVAILABLE, class_MODELS, instances, actor>>

vars == <<trainerVars, prepVars, detectVars, bundleVars, packageVars, routeVars, identifyVars, columnsVars, imputeVars, targetVars, explainVars, sharedVars>>

notTrainerVars == <<prepVars, detectVars, bundleVars, packageVars, routeVars, identifyVars, columnsVars, imputeVars, targetVars, explainVars, sharedVars>>

notPrepVars == <<trainerVars, detectVars, bundleVars, packageVars, routeVars, identifyVars, columnsVars, imputeVars, targetVars, explainVars, sharedVars>>

notDetectVars == <<trainerVars, prepVars, bundleVars, packageVars, routeVars, identifyVars, columnsVars, imputeVars, targetVars, explainVars, sharedVars>>

notBundleVars == <<trainerVars, prepVars, detectVars, packageVars, routeVars, identifyVars, columnsVars, imputeVars, targetVars, explainVars, sharedVars>>

notPackageVars == <<trainerVars, prepVars, detectVars, bundleVars, routeVars, identifyVars, columnsVars, imputeVars, targetVars, explainVars, sharedVars>>

notRouteVars == <<trainerVars, prepVars, detectVars, bundleVars, packageVars, identifyVars, columnsVars, imputeVars, targetVars, explainVars, sharedVars>>

notIdentifyVars == <<trainerVars, prepVars, detectVars, bundleVars, packageVars, routeVars, columnsVars, imputeVars, targetVars, explainVars, sharedVars>>

notColumnsVars == <<trainerVars, prepVars, detectVars, bundleVars, packageVars, routeVars, identifyVars, imputeVars, targetVars, explainVars, sharedVars>>

notImputeVars == <<trainerVars, prepVars, detectVars, bundleVars, packageVars, routeVars, identifyVars, columnsVars, targetVars, explainVars, sharedVars>>

notTargetVars == <<trainerVars, prepVars, detectVars, bundleVars, packageVars, routeVars, identifyVars, columnsVars, imputeVars, explainVars, sharedVars>>

notExplainVars == <<trainerVars, prepVars, detectVars, bundleVars, packageVars, routeVars, identifyVars, columnsVars, imputeVars, targetVars, sharedVars>>

notSharedVars == <<trainerVars, prepVars, detectVars, bundleVars, packageVars, routeVars, identifyVars, columnsVars, imputeVars, targetVars, explainVars>>

(***************************************************************************)
(* Helpers.                                                                *)
(***************************************************************************)
Range(s) == {s[i] : i \in 1..Len(s)}

SeqsUpTo(S, n) == UNION {[1..m -> S] : m \in 0..n}

Last(s) == s[Len(s)]

(***************************************************************************)
(* The trainers' rosters.                                                  *)
(***************************************************************************)
ClassifierModels ==
  <<"logistic_regression", "random_forest", "gradient_boosting", "svm",
    "knn", "decision_tree", "adaboost", "extra_trees">>

RegressorModels ==
  <<"linear_regression", "ridge", "lasso", "elasticnet", "random_forest",
    "gradient_boosting", "svr", "knn", "decision_tree", "adaboost",
    "extra_trees">>

\* the keys of self.MODELS in table order, cut to the model's bound
MODELS(k) ==
  IF k = "classifier" THEN SubSeq(ClassifierModels, 1, RosterLen)
  ELSE IF k = "regressor" THEN SubSeq(RegressorModels, 1, RosterLen)
  ELSE <<>>

KMeansNames == <<"kmeans_1", "kmeans_2", "kmeans_3", "kmeans_4", "kmeans_5">>

\* f'kmeans_{n_clusters}'
KMeansName(k) == KMeansNames[k]

\* the mean cross-validation scores a candidate can reach: accuracy in [0, 1],
\* R2 in (-inf, 1], silhouette in [-1, 1]
Scores(k) ==
  IF k = "classifier" THEN 0..MaxScore
  ELSE IF k = "regressor" THEN (-NegScores)..MaxScore
  ELSE (-MaxScore)..MaxScore

\* the sentinel silhouette of a clustering with fewer than two clusters: -1
SilhouetteSentinel == -MaxScore

\* the explicit models_to_train lists a caller passes
Requests(k) == SeqsUpTo(Range(MODELS(k)) \cup {"not_a_model"}, MaxRequestLen)

NoModel == [name |-> None, made |-> "never"]

InitBestScore(k) == IF k = "classifier" THEN ClassifierInitBest ELSE NegInf

(***************************************************************************)
(* Best tracking: if result[score] > self.best_score: take the candidate.  *)
(***************************************************************************)
TrackBestLastWins(score, name, cur) ==
  [best_score |-> score,
   best_model |-> [name |-> name, made |-> "this"],
   best_model_name |-> name]

TrackBestOnTies(score, name, cur) ==
  IF score >= cur.best_score
  THEN [best_score |-> score,
        best_model |-> [name |-> name, made |-> "this"],
        best_model_name |-> name]
  ELSE cur

TrackBest(score, name, cur) ==
  IF score > cur.best_score
  THEN [best_score |-> score,
        best_model |-> [name |-> name, made |-> "this"],
        best_model_name |-> name]
  ELSE cur

CurBest ==
  [best_score |-> best_score, best_model |-> best_model,
   best_model_name |-> best_model_name]

SetBest(b) ==
  /\ best_score' = b.best_score
  /\ best_model' = b.best_model
  /\ best_model_name' = b.best_model_name

Score(r) ==
  IF "cv_score_mean" \in DOMAIN r THEN r.cv_score_mean ELSE r.silhouette_score

Completed(rs) == {i \in 1..Len(rs) : rs[i].status = "completed"}

(***************************************************************************)
(* Construction.                                                           *)
(***************************************************************************)
TrainerInitOf(k) ==
  /\ kind = k
  /\ trained_models = {}
  /\ best_model = NoModel
  /\ best_model_name = None
  /\ best_score = InitBestScore(kind)
  /\ results = <<>>
  /\ pc = "idle"
  /\ models_to_train = <<>>
  /\ idx = 1
  /\ n_clusters_range = <<2, 2>>
  /\ include_dbscan = FALSE
  /\ n_clusters = 2
  /\ call = "none"
  /\ ret = [status |-> "none"]

TrainerInit == \E k \in {"classifier", "regressor", "clusterer"} : TrainerInitOf(k)

Supervised == kind \in {"classifier", "regressor"}

\* entering train() past the split: the estimator kept from an earlier call
\* is no estimator of this call
Age(m) == IF m = NoModel THEN m ELSE [m EXCEPT !.made = "earlier"]

NextCall == IF call = "none" THEN "first" ELSE "later"

(***************************************************************************)
(* TabularClassifier.train / TabularRegressor.train                        *)
(***************************************************************************)
\* train_test_split succeeded; self.results = []
TrainStart ==
  /\ pc = "idle"
  /\ Supervised
  /\ \/ models_to_train' = MODELS(kind)            \* models_to_train is None
     \/ \E req \in Requests(kind) : models_to_train' = req
  /\ results' = <<>>
  /\ idx' = 1
  /\ pc' = "loop"
  /\ call' = NextCall
  /\ best_model' = Age(best_model)
  /\ ret' = [status |-> "running"]
  /\ UNCHANGED <<kind, trained_models, best_model_name, best_score,
                 n_clusters_range, include_dbscan, n_clusters>>

\* train_test_split raises (a class with one member under stratify, too few
\* rows): train() raises before it touches the instance
TrainSplitRaises ==
  /\ pc = "idle"
  /\ Supervised
  /\ ret' = [status |-> "raised"]
  /\ UNCHANGED <<kind, trained_models, best_model, best_model_name, best_score,
                 results, pc, models_to_train, idx, n_clusters_range,
                 include_dbscan, n_clusters, call>>

\* if model_name not in self.MODELS: continue
CandidateSkipped ==
  /\ pc = "loop"
  /\ idx <= Len(models_to_train)
  /\ models_to_train[idx] \notin Range(MODELS(kind))
  /\ idx' = idx + 1
  /\ UNCHANGED <<kind, trained_models, best_model, best_model_name, best_score,
                 results, pc, models_to_train, n_clusters_range,
                 include_dbscan, n_clusters, call, ret>>

\* _train_single_model returns; the result is appended and the best tracked
CandidateCompleted ==
  /\ pc = "loop"
  /\ idx <= Len(models_to_train)
  /\ models_to_train[idx] \in Range(MODELS(kind))
  /\ \E s \in Scores(kind) :
       /\ results' = Append(results,
            [model_name |-> models_to_train[idx], status |-> "completed",
             cv_score_mean |-> s])
       /\ SetBest(TrackBest(s, models_to_train[idx], CurBest))
  /\ trained_models' = trained_models \cup {models_to_train[idx]}
  /\ idx' = idx + 1
  /\ UNCHANGED <<kind, pc, models_to_train, n_clusters_range, include_dbscan,
                 n_clusters, call, ret>>

\* _train_single_model raises: in cross_val_score or fit ("fit", before the
\* estimator is stored) or in predict or the metrics ("evaluate", after)
CandidateFailedAborts ==
  /\ pc = "loop"
  /\ idx <= Len(models_to_train)
  /\ models_to_train[idx] \in Range(MODELS(kind))
  /\ pc' = "idle"
  /\ ret' = [status |-> "raised"]
  /\ UNCHANGED <<kind, trained_models, best_model, best_model_name, best_score,
                 results, models_to_train, idx, n_clusters_range,
                 include_dbscan, n_clusters, call>>

CandidateFailed ==
  /\ pc = "loop"
  /\ idx <= Len(models_to_train)
  /\ models_to_train[idx] \in Range(MODELS(kind))
  /\ \E stage \in {"fit", "evaluate"} :
       /\ results' = Append(results,
            [model_name |-> models_to_train[idx], status |-> "failed",
             error |-> stage])
       /\ trained_models' =
            IF stage = "evaluate"
            THEN trained_models \cup {models_to_train[idx]}
            ELSE trained_models
  /\ idx' = idx + 1
  /\ UNCHANGED <<kind, best_model, best_model_name, best_score, pc,
                 models_to_train, n_clusters_range, include_dbscan,
                 n_clusters, call, ret>>

\* return {'results': ..., 'best_model': ..., 'best_score': ...}; the locals
\* of the call are gone
TrainReturn ==
  /\ pc = "loop"
  /\ idx > Len(models_to_train)
  /\ pc' = "idle"
  /\ ret' = [status |-> "returned", best_model |-> best_model_name,
             best_score |-> best_score]
  /\ models_to_train' = <<>>
  /\ idx' = 1
  /\ UNCHANGED <<kind, trained_models, best_model, best_model_name, best_score,
                 results, n_clusters_range, include_dbscan, n_clusters, call>>

(***************************************************************************)
(* TabularClusterer.train                                                  *)
(***************************************************************************)
\* self.scaler.fit_transform(X) succeeded; self.results = []
ClusterTrainStart ==
  /\ pc = "idle"
  /\ kind = "clusterer"
  /\ \E lo \in 2..MaxK, hi \in 1..MaxK, db \in BOOLEAN :
       /\ n_clusters_range' = <<lo, hi>>
       /\ include_dbscan' = db
       /\ n_clusters' = lo
  /\ results' = <<>>
  /\ pc' = "kmeans"
  /\ call' = NextCall
  /\ best_model' = Age(best_model)
  /\ ret' = [status |-> "running"]
  /\ UNCHANGED <<kind, trained_models, best_model_name, best_score,
                 models_to_train, idx>>

\* self.scaler.fit_transform(X) raises (no rows, text columns)
ClusterScalerRaises ==
  /\ pc = "idle"
  /\ kind = "clusterer"
  /\ ret' = [status |-> "raised"]
  /\ UNCHANGED <<kind, trained_models, best_model, best_model_name, best_score,
                 results, pc, models_to_train, idx, n_clusters_range,
                 include_dbscan, n_clusters, call>>

\* _train_kmeans returns; _compute_clustering_metrics gives a silhouette or
\* the sentinel
KMeansCompleted ==
  /\ pc = "kmeans"
  /\ n_clusters <= n_clusters_range[2]
  /\ \E s \in Scores(kind) :
       /\ results' = Append(results,
            [model_name |-> KMeansName(n_clusters), status |-> "completed",
             n_clusters |-> n_clusters, silhouette_score |-> s])
       /\ SetBest(TrackBest(s, KMeansName(n_clusters), CurBest))
  /\ trained_models' = trained_models \cup {KMeansName(n_clusters)}
  /\ n_clusters' = n_clusters + 1
  /\ UNCHANGED <<kind, pc, models_to_train, idx, n_clusters_range,
                 include_dbscan, call, ret>>

\* _train_kmeans raises: in fit_predict ("fit") or in the metrics ("evaluate")
KMeansFailed ==
  /\ pc = "kmeans"
  /\ n_clusters <= n_clusters_range[2]
  /\ \E stage \in {"fit", "evaluate"} :
       /\ results' = Append(results,
            [model_name |-> KMeansName(n_clusters), status |-> "failed",
             error |-> stage])
       /\ trained_models' =
            IF stage = "evaluate"
            THEN trained_models \cup {KMeansName(n_clusters)}
            ELSE trained_models
  /\ n_clusters' = n_clusters + 1
  /\ UNCHANGED <<kind, best_model, best_model_name, best_score, pc,
                 models_to_train, idx, n_clusters_range, include_dbscan,
                 call, ret>>

\* _train_dbscan: with fewer than two clusters the metrics are the sentinel
DbscanSilhouettes(found) ==
  IF found >= 2 THEN Scores("clusterer") ELSE {SilhouetteSentinel}

DbscanCompleted ==
  /\ pc = "kmeans"
  /\ n_clusters > n_clusters_range[2]
  /\ include_dbscan
  /\ \E found \in 0..2 : \E s \in DbscanSilhouettes(found) :
       /\ results' = Append(results,
            [model_name |-> "dbscan", status |-> "completed",
             n_clusters |-> found, silhouette_score |-> s])
       /\ SetBest(TrackBest(s, "dbscan", CurBest))
  /\ trained_models' = trained_models \cup {"dbscan"}
  /\ pc' = "return"
  /\ UNCHANGED <<kind, models_to_train, idx, n_clusters_range, include_dbscan,
                 n_clusters, call, ret>>

DbscanFailed ==
  /\ pc = "kmeans"
  /\ n_clusters > n_clusters_range[2]
  /\ include_dbscan
  /\ \E stage \in {"fit", "evaluate"} :
       /\ results' = Append(results,
            [model_name |-> "dbscan", status |-> "failed", error |-> stage])
       /\ trained_models' =
            IF stage = "evaluate" THEN trained_models \cup {"dbscan"}
            ELSE trained_models
  /\ pc' = "return"
  /\ UNCHANGED <<kind, best_model, best_model_name, best_score,
                 models_to_train, idx, n_clusters_range, include_dbscan,
                 n_clusters, call, ret>>

ClusterReturn ==
  /\ \/ pc = "return"
     \/ pc = "kmeans" /\ n_clusters > n_clusters_range[2] /\ ~include_dbscan
  /\ pc' = "idle"
  /\ ret' = [status |-> "returned", best_model |-> best_model_name,
             best_score |-> best_score]
  /\ n_clusters_range' = <<2, 2>>
  /\ include_dbscan' = FALSE
  /\ n_clusters' = 2
  /\ UNCHANGED <<kind, trained_models, best_model, best_model_name, best_score,
                 results, models_to_train, idx, call>>

(***************************************************************************)
(* The trainers' specification.                                            *)
(***************************************************************************)
(***************************************************************************)
(* ProblemDetector.                                                        *)
(*                                                                         *)
(* The detector reads of its table: whether a target column was given, the *)
(* number of rows, the target's dtype and number of distinct non-missing   *)
(* values, whether some column name contains 'date', 'time', 'datetime' or *)
(* 'timestamp', and whether pd.to_datetime parses the head of such a       *)
(* column.  Confidences are in percent.                                    *)
(***************************************************************************)
\* unique_count <= 20
MaxClassUniques == 20
\* unique_ratio < 0.05, as the fraction RatioNum / RatioDen
RatioNum == 5
RatioDen == 100
\* unique_count <= 50
MaxTextUniques == 50

RowCounts == {0, 1, 2, 40, 41, 60, 100, 400, 401, 1020, 10000}

UniqueCounts == {0, 1, 2, 3, 20, 21, 50, 51, 100}

Dtypes == {"int64", "float64", "bool", "object", "category", "datetime64[ns]"}

DetectInputs ==
  {[has_target |-> FALSE, n_rows |-> n, date_named |-> dn, parse_ok |-> po] :
     n \in RowCounts, dn \in BOOLEAN, po \in BOOLEAN}
  \cup
  {in \in [has_target : {TRUE}, n_rows : RowCounts, unique_count : UniqueCounts,
           dtype : Dtypes, date_named : BOOLEAN, parse_ok : BOOLEAN] :
     /\ in.unique_count <= in.n_rows
     /\ in.dtype = "bool" => in.unique_count <= 2}

DReturned(pt, conf) ==
  [status |-> "returned", problem_type |-> pt, confidence |-> conf]

DRaised(e) == [status |-> "raised", error |-> e]

\* _is_timeseries
IsTimeseries(in) == in.date_named /\ in.parse_ok

\* np.issubdtype(dtype, np.number); a pandas CategoricalDtype is no numpy
\* dtype and makes it raise TypeError
IsSubdtypeNumber(dtype) ==
  IF dtype = "category" THEN DRaised("TypeError")
  ELSE [status |-> "ok", value |-> dtype \in {"int64", "float64"}]

\* unique_ratio = unique_count / len(target); unique_ratio < 0.05
RatioBelow(in) == in.unique_count * RatioDen < RatioNum * in.n_rows

\* _determine_problem_type
DetermineProblemType(in) ==
  IF IsTimeseries(in) THEN DReturned("timeseries", 90)
  ELSE IF in.n_rows = 0 THEN DRaised("ZeroDivisionError")
  ELSE IF in.unique_count <= MaxClassUniques /\ RatioBelow(in)
  THEN IF in.unique_count = 2 THEN DReturned("binary_classification", 95)
       ELSE DReturned("multiclass_classification", 90)
  ELSE IF IsSubdtypeNumber(in.dtype).status = "raised"
  THEN IsSubdtypeNumber(in.dtype)
  ELSE IF IsSubdtypeNumber(in.dtype).value THEN DReturned("regression", 90)
  ELSE IF in.dtype = "object" /\ in.unique_count <= MaxTextUniques
  THEN DReturned("multiclass_classification", 70)
  ELSE DReturned("regression", 50)

\* _analyze_target: raises where np.issubdtype does
AnalyzeTarget(in) ==
  IF IsSubdtypeNumber(in.dtype).status = "raised"
  THEN IsSubdtypeNumber(in.dtype) ELSE [status |-> "ok"]

\* detect
Detect(in) ==
  IF ~in.has_target THEN DReturned("clustering", 80)
  ELSE IF DetermineProblemType(in).status = "raised"
  THEN DetermineProblemType(in)
  ELSE IF AnalyzeTarget(in).status = "raised" THEN AnalyzeTarget(in)
  ELSE DetermineProblemType(in)

DetectInit ==
  /\ d_in = [has_target |-> FALSE, n_rows |-> 0, date_named |-> FALSE,
             parse_ok |-> FALSE]
  /\ d_out = [status |-> "none"]

\* ProblemDetector(df, target_column).detect()
DetectCall ==
  \E in \in DetectInputs :
    /\ d_in' = in
    /\ d_out' = Detect(in)

(***************************************************************************)
(* TabularPreprocessor.                                                    *)
(*                                                                         *)
(* A table is a DataFrame with one text column "c" (frame = TRUE, its      *)
(* cells in rows) or something that is no DataFrame (frame = FALSE).  A    *)
(* cell is a string: a sequence of characters.  The cells of the model     *)
(* hold no missing value.                                                  *)
(***************************************************************************)
\* the most rows of a table
MaxRows == 2

Words == {<<"a">>, <<"b">>, <<"a", "b">>, <<"b", "a">>}

Tables ==
  {[frame |-> FALSE, rows |-> <<>>]}
    \cup {[frame |-> TRUE, rows |-> r] : r \in SeqsUpTo(Words, MaxRows)}

CharRank(c) == IF c = "a" THEN 1 ELSE 2

\* the order of Python strings
StrLess(u, v) ==
  \E k \in 1..Len(v) :
    /\ \A j \in 1..(k - 1) : j <= Len(u) /\ u[j] = v[j]
    /\ k > Len(u) \/ CharRank(u[k]) < CharRank(v[k])

\* LabelEncoder.fit / OneHotEncoder.fit: the sorted distinct values
SortedUnique(vals) ==
  LET S == Range(vals)
  IN  CHOOSE s \in [1..Cardinality(S) -> S] :
        \A i, j \in 1..Cardinality(S) : i < j => StrLess(s[i], s[j])

MaxLen(vals) ==
  CHOOSE n \in {Len(vals[i]) : i \in 1..Len(vals)} :
    \A i \in 1..Len(vals) : Len(vals[i]) <= n

\* storing a string in a numpy array of fixed width cuts it to the width
Truncate(w, width) == IF Len(w) <= width THEN w ELSE SubSeq(w, 1, width)

IndexOf(classes, w) == CHOOSE j \in 1..Len(classes) : classes[j] = w

\* OrdinalEncoderWithUnknown.transform on the imputer's ndarray:
\* values = X[:, i].astype(str) has the width of its longest cell; unknown
\* cells are overwritten with classes_[0]; le.transform raises on a value
\* that is no class
OrdinalValues(classes, vals) ==
  [i \in 1..Len(vals) |->
     IF vals[i] \in Range(classes) THEN vals[i]
     ELSE Truncate(classes[1], MaxLen(vals))]

OrdinalTransform(classes, vals) ==
  LET values_copy == OrdinalValues(classes, vals)
  IN  IF \E i \in 1..Len(vals) : values_copy[i] \notin Range(classes)
      THEN [status |-> "raised", error |-> "unseen_label"]
      ELSE [status |-> "ok",
            matrix |-> [i \in 1..Len(vals) |->
                          <<IndexOf(classes, values_copy[i]) - 1>>]]

\* OneHotEncoder(handle_unknown='ignore').transform
OneHotTransform(classes, vals) ==
  [status |-> "ok",
   matrix |-> [i \in 1..Len(vals) |->
                 [j \in 1..Len(classes) |->
                    IF classes[j] = vals[i] THEN 1 ELSE 0]]]

NoTransformer == [state |-> "none"]

PrepInitOf(mode) ==
  /\ encode_categorical = mode
  /\ numeric_columns_ = <<>>
  /\ categorical_columns_ = <<>>
  /\ column_transformer_ = NoTransformer
  /\ feature_names_out_ = <<>>
  /\ fit_completed = FALSE
  /\ t_out = [status |-> "none"]

PrepInit == \E mode \in {"onehot", "label"} : PrepInitOf(mode)

\* _get_feature_names
FeatureNames(mode, classes) ==
  IF mode = "onehot" THEN [j \in 1..Len(classes) |-> <<"c", classes[j]>>]
  ELSE <<<<"c">>>>

\* fit(X) on something that is no DataFrame: _identify_columns empties both
\* lists and raises at X.columns
FitNotAFrame ==
  /\ \E X \in Tables : ~X.frame
  /\ numeric_columns_' = <<>>
  /\ categorical_columns_' = <<>>
  /\ t_out' = [status |-> "none"]
  /\ UNCHANGED <<encode_categorical, column_transformer_, feature_names_out_,
                 fit_completed>>

\* fit(X) on a DataFrame without rows: the new ColumnTransformer is assigned
\* and its fit raises (the imputer finds 0 samples)
FitNoRows ==
  /\ \E X \in Tables : X.frame /\ Len(X.rows) = 0
  /\ numeric_columns_' = <<>>
  /\ categorical_columns_' = <<"c">>
  /\ column_transformer_' = [state |-> "unfitted"]
  /\ t_out' = [status |-> "none"]
  /\ UNCHANGED <<encode_categorical, feature_names_out_, fit_completed>>

\* fit(X) returns self
FitCompleted ==
  \E X \in Tables :
    /\ X.frame /\ Len(X.rows) > 0
    /\ numeric_columns_' = <<>>
    /\ categorical_columns_' = <<"c">>
    /\ column_transformer_' =
         [state |-> "fitted", classes |-> SortedUnique(X.rows)]
    /\ feature_names_out_' =
         FeatureNames(encode_categorical, SortedUnique(X.rows))
    /\ fit_completed' = TRUE
    /\ t_out' = [status |-> "none"]
    /\ UNCHANGED encode_categorical

\* what transform(X) gives in the state at hand
TransformResult(X) ==
  IF column_transformer_.state = "none"
  THEN [status |-> "raised", error |-> "not_fitted"]    \* the ValueError of transform
  ELSE IF column_transformer_.state = "unfitted"
  THEN [status |-> "raised", error |-> "not_fitted"]    \* raised by the ColumnTransformer
  ELSE IF ~X.frame \/ Len(X.rows) = 0
  THEN [status |-> "raised", error |-> "bad_input"]
  ELSE IF encode_categorical = "onehot"
  THEN OneHotTransform(column_transformer_.classes, X.rows)
  ELSE OrdinalTransform(column_transformer_.classes, X.rows)

\* a transform that adds the table's values to the fitted vocabulary
TransformLearns ==
  \E X \in Tables :
    /\ t_out' = [call |-> X] @@ TransformResult(X)
    /\ column_transformer_' =
         IF column_transformer_.state = "fitted"
         THEN [column_transformer_ EXCEPT
                 !.classes = SortedUnique(@ \o X.rows)]
         ELSE column_transformer_
    /\ UNCHANGED <<encode_categorical, numeric_columns_, categorical_columns_,
                   feature_names_out_, fit_completed>>

\* transform(X)
Transform ==
  \E X \in Tables :
    /\ t_out' = [call |-> X] @@ TransformResult(X)
    /\ UNCHANGED <<encode_categorical, numeric_columns_, categorical_columns_,
                   column_transformer_, feature_names_out_, fit_completed>>

(***************************************************************************)
(* run_training_pipeline, ModelPackager.package and the generated loader.  *)
(*                                                                         *)
(* The experiment's table has one text feature whose cells are "a" or "b"; *)
(* a table is given by the number of rows of each.  The preprocessor       *)
(* one-hot encodes the feature.  The clusterer's StandardScaler and the    *)
(* k-means centres are kept in doubled units, which are whole numbers for  *)
(* the tables of the model.  A supervised estimator is the function from   *)
(* feature rows to predictions that its fit produced.                      *)
(***************************************************************************)
NoBest == [kind |-> "None"]

Absent == [kind |-> "absent"]

ClusterTables ==
  {[nA |-> 1, nB |-> 0], [nA |-> 0, nB |-> 1], [nA |-> 1, nB |-> 1],
   [nA |-> 2, nB |-> 2], [nA |-> 4, nB |-> 1], [nA |-> 1, nB |-> 4],
   [nA |-> 5, nB |-> 5], [nA |-> 8, nB |-> 2], [nA |-> 2, nB |-> 8]}

SupervisedTables ==
  {[nA |-> 5, nB |-> 5], [nA |-> 8, nB |-> 2], [nA |-> 2, nB |-> 8]}

Jobs ==
  {[problem_type |-> pt, table |-> t] :
     pt \in {"classification", "regression"}, t \in SupervisedTables}
  \cup {[problem_type |-> "clustering", table |-> t] : t \in ClusterTables}

NRows(t) == t.nA + t.nB

\* the cells of the feature column, one of each
Cells(t) ==
  (IF t.nA > 0 THEN {<<"a">>} ELSE {}) \cup (IF t.nB > 0 THEN {<<"b">>} ELSE {})

CellsSeq(t) ==
  IF t.nA > 0 /\ t.nB > 0 THEN << <<"a">>, <<"b">> >>
  ELSE IF t.nA > 0 THEN << <<"a">> >> ELSE << <<"b">> >>

CountOf(t, w) == IF w = <<"a">> THEN t.nA ELSE t.nB

\* preprocessor.transform of one row
PreprocessRow(prep, w) == OneHotTransform(prep.classes, <<w>>).matrix[1]

ISqrt(m) == CHOOSE r \in 0..m : r * r = m

\* StandardScaler.fit on the one-hot matrix: per column the count of ones
\* (mean_ = count / n, scale_ = sqrt(count * (n - count)) / n, or 1 when the
\* column is constant)
ScalerFit(prep, t) ==
  [n |-> NRows(t),
   ones |-> [j \in 1..Len(prep.classes) |-> CountOf(t, prep.classes[j])]]

\* StandardScaler.transform of one row, doubled
ScalerTransform(sc, x) ==
  [j \in 1..Len(x) |->
     IF sc.ones[j] = 0 \/ sc.ones[j] = sc.n
     THEN (2 * (x[j] * sc.n - sc.ones[j])) \div sc.n
     ELSE (2 * (x[j] * sc.n - sc.ones[j]))
            \div ISqrt(sc.ones[j] * (sc.n - sc.ones[j]))]

\* a row as it is, doubled
Unscaled(x) == [j \in 1..Len(x) |-> 2 * x[j]]

RECURSIVE SqDist(_, _)
SqDist(x, c) ==
  IF Len(x) = 0 THEN 0
  ELSE (x[1] - c[1]) * (x[1] - c[1]) + SqDist(Tail(x), Tail(c))

\* KMeans.predict: the index of the nearest centre, the first of equals
KMeansPredict(centers, x) ==
  (CHOOSE i \in 1..Len(centers) :
     /\ \A j \in 1..Len(centers) : SqDist(x, centers[i]) <= SqDist(x, centers[j])
     /\ \A j \in 1..(i - 1) : SqDist(x, centers[j]) > SqDist(x, centers[i])) - 1

\* _train_kmeans for 2 clusters: raises for fewer rows than clusters, and
\* for 2 rows in silhouette_score, which wants fewer labels than rows; the
\* centres are the two distinct points, in either order; the silhouette of a
\* row is 1 in a cluster of several rows and 0 in a cluster of one, and the
\* score is their mean, kept as its numerator over the number of rows
KMeansFit(prep, t, flip) ==
  IF NRows(t) < 3 THEN [status |-> "failed"]
  ELSE LET sc == ScalerFit(prep, t)
           pts == [i \in 1..2 |->
                     ScalerTransform(sc, PreprocessRow(prep, CellsSeq(t)[i]))]
       IN  [status |-> "completed",
            model |-> [kind |-> "KMeans",
                       cluster_centers_ |->
                         IF flip THEN <<pts[2], pts[1]>> ELSE pts],
            silhouette_num |-> (IF t.nA > 1 THEN t.nA ELSE 0)
                                 + (IF t.nB > 1 THEN t.nB ELSE 0)]

\* min_samples of DBSCAN
DbscanMinSamples == 5

\* _train_dbscan: rows of equal cells form a cluster when they are at least
\* min_samples, rows of different cells are farther apart than eps; the
\* silhouette is 1 with two clusters and the sentinel -1 otherwise
DbscanFit(t) ==
  [status |-> "completed",
   model |-> [kind |-> "DBSCAN"],
   silhouette |-> IF t.nA >= DbscanMinSamples /\ t.nB >= DbscanMinSamples
                  THEN 1 ELSE -1]

\* TabularClusterer.train: the k-means sweep, then DBSCAN, which becomes the
\* best model when its score is greater (more clusters than 2 find the same
\* two groups and never score greater than kmeans_2)
ClustererBest(prep, t, flip) ==
  LET km == KMeansFit(prep, t, flip)
      db == DbscanFit(t)
  IN  IF km.status = "failed" THEN db.model
      ELSE IF db.silhouette * NRows(t) > km.silhouette_num THEN db.model
      ELSE km.model

FeatureRows(prep, t) == {PreprocessRow(prep, w) : w \in Cells(t)}

Predictions(pt) == IF pt = "classification" THEN {0, 1} ELSE {0, 1, 2}

\* the best model a supervised trainer can be left with: None when every
\* candidate failed, else a fitted estimator
SupervisedBest(prep, job) ==
  {NoBest} \cup
  {[kind |-> "estimator", f |-> f] :
     f \in [FeatureRows(prep, job.table) -> Predictions(job.problem_type)]}

PackageFiles(model, prep) ==
  [model_pkl |-> model, preprocessor_pkl |-> prep]

BundleInit ==
  /\ b_job = [problem_type |-> "none"]
  /\ b_preprocessor = Absent
  /\ b_trainer = [best_model |-> NoBest, scaler |-> Absent]
  /\ b_package = Absent
  /\ b_loaded = Absent
  /\ b_mem = Absent
  /\ b_ld = Absent

\* run_training_pipeline: preprocessor.fit_transform, trainer.train,
\* packager.package(model = trainer.best_model, preprocessor = preprocessor)
RunTrainingPipeline ==
  \E job \in Jobs, flip \in BOOLEAN :
    LET prep == [kind |-> "TabularPreprocessor",
                 classes |-> SortedUnique(CellsSeq(job.table))]
    IN  /\ b_job' = job
        /\ b_preprocessor' = prep
        /\ IF job.problem_type = "clustering"
           THEN b_trainer' = [best_model |-> ClustererBest(prep, job.table, flip),
                              scaler |-> ScalerFit(prep, job.table)]
           ELSE /\ ~flip
                /\ \E m \in SupervisedBest(prep, job) :
                     b_trainer' = [best_model |-> m, scaler |-> Absent]
        /\ b_package' = PackageFiles(b_trainer'.best_model, prep)
        /\ b_loaded' = Absent
        /\ b_mem' = Absent
        /\ b_ld' = Absent

\* loader.load_model()
LoaderLoadModel ==
  /\ b_package # Absent
  /\ b_loaded' = [model |-> b_package.model_pkl,
                  preprocessor |-> b_package.preprocessor_pkl]
  /\ UNCHANGED <<b_job, b_preprocessor, b_trainer, b_package, b_mem, b_ld>>

\* model.predict(data) of the loader
LoadedPredict(model, x) ==
  IF model.kind = "estimator" THEN [status |-> "ok", value |-> model.f[x]]
  ELSE IF model.kind = "KMeans"
  THEN [status |-> "ok",
        value |-> KMeansPredict(model.cluster_centers_, Unscaled(x))]
  ELSE [status |-> "raised", error |-> "AttributeError"]

\* loader.predict(model, preprocessor, data) on a training row
LoaderPredict ==
  /\ b_loaded # Absent
  /\ \E w \in Cells(b_job.table) :
    /\ b_ld' = [row |-> w]
                 @@ LoadedPredict(b_loaded.model,
                                  PreprocessRow(b_loaded.preprocessor, w))
    /\ UNCHANGED <<b_job, b_preprocessor, b_trainer, b_package, b_loaded, b_mem>>

\* trainer.predict(X) on a preprocessed row
TrainerPredictResult(tr, x) ==
  IF tr.best_model.kind = "None" THEN [status |-> "raised", error |-> "ValueError"]
  ELSE IF tr.best_model.kind = "estimator"
  THEN [status |-> "ok", value |-> tr.best_model.f[x]]
  ELSE IF tr.best_model.kind = "KMeans"
  THEN [status |-> "ok",
        value |-> KMeansPredict(tr.best_model.cluster_centers_,
                                ScalerTransform(tr.scaler, x))]
  ELSE [status |-> "ok", value |-> -1]    \* DBSCAN.fit_predict of one row: noise

\* the prediction of the best model in memory for a training row
TrainerPredict ==
  /\ b_job.problem_type # "none"
  /\ \E w \in Cells(b_job.table) :
    /\ b_mem' = [row |-> w]
                  @@ TrainerPredictResult(b_trainer, PreprocessRow(b_preprocessor, w))
    /\ UNCHANGED <<b_job, b_preprocessor, b_trainer, b_package, b_loaded, b_ld>>

(***************************************************************************)
(* ModelPackager.package.                                                  *)
(*                                                                         *)
(* One packager writes under its output_dir.  A package directory is named *)
(* by the metadata's name and the second of the call; packaged_at is the   *)
(* time of the call in ticks.  A file is the value written into it.  Any   *)
(* write can fail (I/O error, an object that cannot be serialized, a model *)
(* without save()); fail_at is the step that raises, 0 for none.           *)
(***************************************************************************)
\* the most ticks of the clock
MaxClock == 3
\* ticks in a second
TicksPerSecond == 2
\* the most package() calls
MaxCalls == 2
\* the rows of a column given to the imputer
MaxColumnLen == 3

Steps ==
  <<"mkdir", "model", "preprocessor", "feature_schema", "ui_schema",
    "metadata", "model_info", "loader", "app", "requirements">>

StepOf(name) == CHOOSE i \in 1..Len(Steps) : Steps[i] = name

ModelFormats == {"pkl", "h5", "onnx"}

Preprocessors == {"None", "preprocessor"}

FreshMetadata ==
  [name |-> "churn", problem_type |-> "classification", target_column |-> "y",
   best_model |-> "random_forest", best_score |-> 1]

FeatureSchema ==
  [target_column |-> "y",
   features |-> <<[name |-> "age", dtype |-> "int64", semantic_type |-> "numeric"],
                  [name |-> "city", dtype |-> "object", semantic_type |-> "categorical"]>>]

\* metadata.get(key, default)
Get(md, key, default) == IF key \in DOMAIN md THEN md[key] ELSE default

\* f'model.{model_format}'
ModelFile(fmt) ==
  IF fmt = "pkl" THEN "model.pkl" ELSE IF fmt = "h5" THEN "model.h5" ELSE "model.onnx"

\* package_dir
PackageDir(md, now) ==
  [name |-> Get(md, "name", "model"), stamp |-> now \div TicksPerSecond]

AllDirs ==
  {[name |-> n, stamp |-> t] :
     n \in {FreshMetadata.name}, t \in 0..(MaxClock \div TicksPerSecond)}

NoFiles == [f \in {} |-> "nothing"]

\* _create_ui_field
CreateUiField(info) ==
  IF info.semantic_type = "categorical" \/ info.dtype \in {"object", "category"}
  THEN [name |-> info.name, type |-> "categorical", input_type |-> "dropdown"]
  ELSE IF info.semantic_type = "numeric"
          \/ info.dtype \in {"int64", "float64", "int32", "float32"}
  THEN [name |-> info.name, type |-> "number", input_type |-> "number"]
  ELSE IF info.semantic_type = "boolean"
  THEN [name |-> info.name, type |-> "boolean", input_type |-> "checkbox"]
  ELSE [name |-> info.name, type |-> "text", input_type |-> "text"]

\* _generate_ui_schema
GenerateUiSchema(schema, md) ==
  [model_name |-> Get(md, "name", "Unnamed Model"),
   version |-> Get(md, "version", "1.0.0"),
   target_column |-> Get(md, "target_column", "None"),
   problem_type |-> Get(md, "problem_type", "None"),
   fields |-> [i \in 1..Len(schema.features) |-> CreateUiField(schema.features[i])]]

\* the metadata dict after lines 73-74
Stamped(md, now) ==
  [packaged_at |-> now, package_version |-> "1.0.0"] @@ md

\* _generate_model_info, called with the stamped metadata
GenerateModelInfo(md, schema) ==
  [model_name |-> Get(md, "name", "Unnamed Model"),
   problem_type |-> Get(md, "problem_type", "None"),
   target_column |-> Get(md, "target_column", "None"),
   best_algorithm |-> Get(md, "best_model", "None"),
   best_score |-> Get(md, "best_score", "None"),
   training_date |-> Get(md, "packaged_at", "None"),
   features |-> [i \in 1..Len(schema.features) |-> schema.features[i].name]]

\* _generate_loader_script: the text and the files its functions open
GenerateLoaderScript(fmt, md) ==
  [model_name |-> Get(md, "name", "model"),
   opens |-> {ModelFile(fmt), "model_info.json", "feature_schema.json"},
   opens_if_exists |-> {"preprocessor.pkl"}]

\* _generate_streamlit_app: the text and the files it opens
GenerateStreamlitApp(md, schema) ==
  [model_name |-> Get(md, "name", "ML Model"),
   best_model |-> Get(md, "best_model", "Unknown"),
   target_col |-> Get(md, "target_column", "target"),
   fields |-> [i \in 1..Len(schema.features) |-> schema.features[i].semantic_type],
   opens |-> {"model.pkl", "model_info.json"},
   opens_if_exists |-> {"preprocessor.pkl"}]

\* _generate_requirements
Requirements(fmt) ==
  <<"pandas", "numpy", "scikit-learn", "joblib", "streamlit">>
    \o (IF fmt = "h5" THEN <<"tensorflow">> ELSE <<>>)

\* the calls package() can get at time now
PackageCalls(now) ==
  {c \in [model_format : ModelFormats, preprocessor : Preprocessors,
          metadata : {FreshMetadata, caller_metadata},
          feature_schema : {FeatureSchema}, now : {now},
          fail_at : 0..Len(Steps)] :
     \* a step that writes nothing cannot raise
     /\ c.fail_at = StepOf("model") => c.model_format \in {"pkl", "h5"}
     /\ c.fail_at = StepOf("preprocessor") => c.preprocessor # "None"}

\* the step is reached and does not raise
Executed(c, step) == c.fail_at = 0 \/ StepOf(step) < c.fail_at

\* the files the call writes, in the order of package()
Written(c) ==
  (IF Executed(c, "model") /\ c.model_format \in {"pkl", "h5"}
   THEN {ModelFile(c.model_format)} ELSE {})
  \cup (IF Executed(c, "preprocessor") /\ c.preprocessor # "None"
        THEN {"preprocessor.pkl"} ELSE {})
  \cup (IF Executed(c, "feature_schema") THEN {"feature_schema.json"} ELSE {})
  \cup (IF Executed(c, "ui_schema") THEN {"ui_schema.json"} ELSE {})
  \cup (IF Executed(c, "metadata") THEN {"metadata.json"} ELSE {})
  \cup (IF Executed(c, "model_info") THEN {"model_info.json"} ELSE {})
  \cup (IF Executed(c, "loader") THEN {"loader.py"} ELSE {})
  \cup (IF Executed(c, "app") THEN {"streamlit_app.py"} ELSE {})
  \cup (IF Executed(c, "requirements") THEN {"requirements.txt"} ELSE {})

\* what the call writes into a file
Content(c, file) ==
  IF file = ModelFile(c.model_format) THEN [dumped |-> "model"]
  ELSE IF file = "preprocessor.pkl" THEN [dumped |-> c.preprocessor]
  ELSE IF file = "feature_schema.json" THEN c.feature_schema
  ELSE IF file = "ui_schema.json" THEN GenerateUiSchema(c.feature_schema, c.metadata)
  ELSE IF file = "metadata.json" THEN Stamped(c.metadata, c.now)
  ELSE IF file = "model_info.json"
  THEN GenerateModelInfo(Stamped(c.metadata, c.now), c.feature_schema)
  ELSE IF file = "loader.py"
  THEN GenerateLoaderScript(c.model_format, Stamped(c.metadata, c.now))
  ELSE IF file = "streamlit_app.py"
  THEN GenerateStreamlitApp(Stamped(c.metadata, c.now), c.feature_schema)
  ELSE Requirements(c.model_format)

\* the directory after the call: os.makedirs(exist_ok=True), then the writes
\* over whatever the directory holds
DirAfter(c, before) ==
  IF c.fail_at = StepOf("mkdir") THEN before
  ELSE [exists |-> TRUE,
        files |-> [f \in Written(c) |-> Content(c, f)] @@ before.files]

\* the caller's dict after the call: stamped in place before metadata.json
\* is opened
MetadataAfter(c) ==
  IF c.fail_at = 0 \/ c.fail_at >= StepOf("metadata")
  THEN Stamped(c.metadata, c.now) ELSE c.metadata

NoCall == [status |-> "none"]

PackageInit ==
  /\ fs = [d \in AllDirs |-> [exists |-> FALSE, files |-> NoFiles]]
  /\ clock = 0
  /\ caller_metadata = FreshMetadata
  /\ p_calls = 0
  /\ p_prev = NoCall
  /\ p_last = NoCall

PackageStep(c, status) ==
  LET dir == PackageDir(c.metadata, c.now)
  IN  /\ p_calls < MaxCalls
      /\ fs' = [fs EXCEPT ![dir] = DirAfter(c, fs[dir])]
      /\ caller_metadata' = MetadataAfter(c)
      /\ p_calls' = p_calls + 1
      /\ p_prev' = p_last
      /\ p_last' = [status |-> status, dir |-> dir, call |-> c]
      /\ UNCHANGED clock

\* package() returns package_dir
PackageReturns ==
  \E c \in PackageCalls(clock) : c.fail_at = 0 /\ PackageStep(c, "returned")

\* package() raises at one of its steps
PackageRaises ==
  \E c \in PackageCalls(clock) : c.fail_at # 0 /\ PackageStep(c, "raised")

\* time passes between calls
Tick ==
  /\ clock < MaxClock
  /\ clock' = clock + 1
  /\ UNCHANGED <<fs, caller_metadata, p_calls, p_prev, p_last>>

(***************************************************************************)
(* routes/training.py: start_training launches _run_training_task in a     *)
(* thread; cancel_training is another request on the same Experiment row.  *)
(* The task fits each candidate on the training split and scores it on the *)
(* held-out split.  rt_cv records, beside the program, the mean            *)
(* cross-validation score each completed candidate has on the training     *)
(* split; the task never reads it.                                         *)
(***************************************************************************)
RouteClassifiers ==
  <<"Logistic Regression", "Random Forest", "Gradient Boosting", "SVM", "KNN",
    "Decision Tree", "AdaBoost", "Extra Trees">>

RouteRegressors ==
  <<"Linear Regression", "Ridge Regression", "Lasso Regression", "ElasticNet",
    "Random Forest", "Gradient Boosting", "SVR", "KNN", "Decision Tree",
    "AdaBoost", "Extra Trees">>

\* models, cut to the model's bound
RouteModels(pt) ==
  IF pt = "classification" THEN SubSeq(RouteClassifiers, 1, RosterLen)
  ELSE SubSeq(RouteRegressors, 1, RosterLen)

\* accuracy and r2 on the scale of the trainers' scores
RouteScores(pt) ==
  IF pt = "classification" THEN Scores("classifier") ELSE Scores("regressor")

RouteNoBest == [best_model |-> None, best_score |-> NegInf, best_model_name |-> ""]

RouteInit ==
  /\ rt_pc = "idle"
  /\ rt_experiment = [status |-> "none"]
  /\ rt_problem_type = None
  /\ rt_idx = 0
  /\ rt_best = RouteNoBest
  /\ rt_all_results = <<>>
  /\ rt_cv = <<>>
  /\ rt_packaged = None

\* start_training: the Experiment row is created with status 'training' and
\* the thread is launched
StartTraining ==
  /\ rt_pc \in {"idle", "done"}
  /\ rt_experiment' = [status |-> "training", problem_type |-> None,
                       error_message |-> None]
  /\ rt_pc' = "prepare"
  /\ rt_problem_type' = None
  /\ rt_idx' = 0
  /\ rt_best' = RouteNoBest
  /\ rt_all_results' = <<>>
  /\ rt_cv' = <<>>
  /\ rt_packaged' = None

\* the target column is not in the table: status 'failed', return
TaskTargetMissing ==
  /\ rt_pc = "prepare"
  /\ rt_experiment' = [rt_experiment EXCEPT !.status = "failed",
                                            !.error_message = "Target column not found"]
  /\ rt_pc' = "done"
  /\ UNCHANGED <<rt_problem_type, rt_idx, rt_best, rt_all_results, rt_cv, rt_packaged>>

\* loading or preprocessing raises: the outer except sets status 'failed'
TaskPrepareRaises ==
  /\ rt_pc = "prepare"
  /\ rt_experiment' = [rt_experiment EXCEPT !.status = "failed",
                                            !.error_message = "str(e)"]
  /\ rt_pc' = "done"
  /\ UNCHANGED <<rt_problem_type, rt_idx, rt_best, rt_all_results, rt_cv, rt_packaged>>

\* data loaded, problem type detected and stored, split made, models listed
TaskPrepared ==
  \E pt \in {"classification", "regression"} :
    /\ rt_pc = "prepare"
    /\ rt_problem_type' = pt
    /\ rt_experiment' = [rt_experiment EXCEPT !.problem_type = pt]
    /\ rt_pc' = "loop"
    /\ rt_idx' = 1
    /\ rt_best' = RouteNoBest
    /\ UNCHANGED <<rt_all_results, rt_cv, rt_packaged>>

\* one candidate: model.fit(X_train), score on X_test, if score > best_score
TaskCandidateCompleted ==
  \E score \in RouteScores(rt_problem_type), cv \in RouteScores(rt_problem_type) :
    LET model_name == RouteModels(rt_problem_type)[rt_idx]
    IN  /\ rt_pc = "loop"
        /\ rt_idx <= Len(RouteModels(rt_problem_type))
        /\ rt_all_results' = Append(rt_all_results, [model |-> model_name, score |-> score])
        /\ rt_cv' = Append(rt_cv, [model |-> model_name, cv_score_mean |-> cv])
        /\ rt_best' = IF score > rt_best.best_score
                      THEN [best_model |-> model_name, best_score |-> score,
                            best_model_name |-> model_name]
                      ELSE rt_best
        /\ rt_idx' = rt_idx + 1
        /\ UNCHANGED <<rt_pc, rt_experiment, rt_problem_type, rt_packaged>>

\* one candidate raises: its job is marked failed and the loop goes on
TaskCandidateFailed ==
  /\ rt_pc = "loop"
  /\ rt_idx <= Len(RouteModels(rt_problem_type))
  /\ rt_idx' = rt_idx + 1
  /\ UNCHANGED <<rt_pc, rt_experiment, rt_problem_type, rt_best, rt_all_results,
                 rt_cv, rt_packaged>>

\* after the loop: the experiment is updated with the results
TaskUpdateExperiment ==
  /\ rt_pc = "loop"
  /\ rt_idx > Len(RouteModels(rt_problem_type))
  /\ rt_experiment' = [status |-> "completed", problem_type |-> rt_problem_type,
                       best_model_name |-> rt_best.best_model_name,
                       best_score |-> rt_best.best_score,
                       error_message |-> rt_experiment.error_message]
  /\ rt_pc' = "package"
  /\ UNCHANGED <<rt_problem_type, rt_idx, rt_best, rt_all_results, rt_cv, rt_packaged>>

\* if best_model is not None: packager.package(model=best_model, ...); a
\* failure of packaging is caught and printed
TaskPackage ==
  /\ rt_pc = "package"
  /\ rt_best.best_model # None
  /\ rt_packaged' = rt_best.best_model
  /\ rt_pc' = "ensure"
  /\ UNCHANGED <<rt_experiment, rt_problem_type, rt_idx, rt_best, rt_all_results, rt_cv>>

\* best_model is None: nothing is packaged
TaskNoPackage ==
  /\ rt_pc = "package"
  /\ rt_best.best_model = None
  /\ rt_pc' = "ensure"
  /\ UNCHANGED <<rt_experiment, rt_problem_type, rt_idx, rt_best, rt_all_results,
                 rt_cv, rt_packaged>>

\* FINAL ENSURE: a status other than 'completed' is set to 'completed'
TaskFinalEnsure ==
  /\ rt_pc = "ensure"
  /\ rt_experiment' = [rt_experiment EXCEPT !.status = "completed"]
  /\ rt_pc' = "done"
  /\ UNCHANGED <<rt_problem_type, rt_idx, rt_best, rt_all_results, rt_cv, rt_packaged>>

\* cancel_training: only an experiment with status 'training' is cancelled
CancelTraining ==
  /\ rt_experiment.status = "training"
  /\ rt_experiment' = [rt_experiment EXCEPT !.status = "cancelled"]
  /\ UNCHANGED <<rt_pc, rt_problem_type, rt_idx, rt_best, rt_all_results, rt_cv,
                 rt_packaged>>

(***************************************************************************)
(* TabularPreprocessor._identify_columns.                                  *)
(*                                                                         *)
(* The function reads of its frame the number of rows and, of each column, *)
(* the name, the dtype and nunique(), the number of distinct non-missing   *)
(* values.                                                                 *)
(***************************************************************************)
\* the default of the constructor's max_onehot_cardinality
max_onehot_cardinality == 10

\* nunique() < len(X) * 0.05, as the fraction FractionNum / FractionDen
FractionNum == 5
FractionDen == 100

FrameLens == {0, 1, 20, 21, 200, 201, 1000}

ColumnUniques == {0, 1, 10, 11, 30}

ColumnDtypes ==
  {"int64", "int32", "float64", "float32", "int16", "float16", "object",
   "category"}

ColumnNames == <<"a", "b">>

Frames ==
  {[n_rows |-> n, columns |-> cs] :
     n \in FrameLens,
     cs \in {c \in SeqsUpTo([dtype : ColumnDtypes, nunique : ColumnUniques],
                            Len(ColumnNames)) : Len(c) > 0}}

\* a column's values are among the rows
WellFormed(X) == \A i \in 1..Len(X.columns) : X.columns[i].nunique <= X.n_rows

\* X[col].dtype in ['int64', 'int32', 'float64', 'float32']
DtypeListed(dtype) == dtype \in {"int64", "int32", "float64", "float32"}

\* the test of one column: TRUE for categorical_columns_
IsCategorical(X, col) ==
  IF DtypeListed(col.dtype)
  THEN /\ col.nunique <= max_onehot_cardinality
       /\ col.nunique * FractionDen < X.n_rows * FractionNum
  ELSE TRUE

\* the columns of X, in order, that pass the test (keep = TRUE) or fail it
RECURSIVE ColumnsWhere(_, _, _)
ColumnsWhere(X, i, keep) ==
  IF i > Len(X.columns) THEN <<>>
  ELSE (IF IsCategorical(X, X.columns[i]) = keep
        THEN <<ColumnNames[i]>> ELSE <<>>) \o ColumnsWhere(X, i + 1, keep)

IdentifyInit ==
  /\ ic_X = [n_rows |-> 0, columns |-> <<>>]
  /\ ic_numeric = <<>>
  /\ ic_categorical = <<>>

\* the frames fit() may hand over
IdentifyInputs ==
  /\ ic_X \in {X \in Frames : WellFormed(X)}
  /\ ic_numeric = <<>>
  /\ ic_categorical = <<>>

\* _identify_columns(X)
IdentifyColumns ==
  /\ ic_numeric' = ColumnsWhere(ic_X, 1, FALSE)
  /\ ic_categorical' = ColumnsWhere(ic_X, 1, TRUE)
  /\ UNCHANGED ic_X

(***************************************************************************)
(* The columns of a frame at fit and at transform.                         *)
(*                                                                         *)
(* A frame here has one row of integer cells and is the function from its  *)
(* column names to the cells.  A column fitted on one row is numeric for   *)
(* both preprocessors; its median and mean are the cell and its variance   *)
(* is 0, so the StandardScaler subtracts the cell and divides by 1.        *)
(***************************************************************************)
ColumnOrder == <<"a", "b", "x">>

RowFrames(names) == UNION {[S -> {0, 1}] : S \in SUBSET names}

\* the names of S as a list
RECURSIVE InOrder(_, _)
InOrder(S, i) ==
  IF i > Len(ColumnOrder) THEN <<>>
  ELSE (IF ColumnOrder[i] \in S THEN <<ColumnOrder[i]>> ELSE <<>>)
         \o InOrder(S, i + 1)

ColumnsInit ==
  /\ cp_kind = "TabularPreprocessor"
  /\ cp_fit = [columns |-> <<>>, mean_ |-> <<>>]
  /\ cp_out = [status |-> "none"]

\* TabularPreprocessor().fit(X): the ColumnTransformer keeps the columns by
\* name and the scaler their means
FitColumns ==
  \E X \in RowFrames({"a", "b"}) :
    /\ DOMAIN X # {}
    /\ cp_kind' = "TabularPreprocessor"
    /\ cp_fit' = [columns |-> InOrder(DOMAIN X, 1), mean_ |-> X]
    /\ cp_out' = [status |-> "none"]

\* CombinedPreprocessor().fit_transform(X)
CombinedFitTransform ==
  \E X \in RowFrames({"a", "b"}) :
    /\ DOMAIN X # {}
    /\ cp_kind' = "CombinedPreprocessor"
    /\ cp_fit' = [columns |-> InOrder(DOMAIN X, 1), mean_ |-> X]
    /\ cp_out' = [status |-> "none"]

\* ColumnTransformer.transform of a frame: the fitted columns are taken by
\* name, a frame that lacks one of them is refused
ColumnTransformerTransform(fit, X) ==
  IF \E i \in 1..Len(fit.columns) : fit.columns[i] \notin DOMAIN X
  THEN [status |-> "raised", error |-> "columns are missing"]
  ELSE [status |-> "ok",
        row |-> [i \in 1..Len(fit.columns) |->
                   X[fit.columns[i]] - fit.mean_[fit.columns[i]]]]

\* CombinedPreprocessor.transform: a missing column is filled with 0, the
\* frame is cut to feature_columns and scaled
CombinedTransformResult(fit, X) ==
  [status |-> "ok",
   row |-> [i \in 1..Len(fit.columns) |->
              (IF fit.columns[i] \in DOMAIN X THEN X[fit.columns[i]] ELSE 0)
                - fit.mean_[fit.columns[i]]]]

\* TabularPreprocessor.transform(X) after a fit
TransformColumns ==
  /\ cp_kind = "TabularPreprocessor" /\ cp_fit.columns # <<>>
  /\ \E X \in RowFrames({"a", "b", "x"}) :
       cp_out' = [call |-> X] @@ ColumnTransformerTransform(cp_fit, X)
  /\ UNCHANGED <<cp_kind, cp_fit>>

\* CombinedPreprocessor.transform(X) after a fit_transform
CombinedTransform ==
  /\ cp_kind = "CombinedPreprocessor" /\ cp_fit.columns # <<>>
  /\ \E X \in RowFrames({"a", "b", "x"}) :
       cp_out' = [call |-> X] @@ CombinedTransformResult(cp_fit, X)
  /\ UNCHANGED <<cp_kind, cp_fit>>

(***************************************************************************)
(* The imputer of the categorical pipeline:                                *)
(* SimpleImputer(strategy=categorical_strategy, fill_value='missing').     *)
(*                                                                         *)
(* A column is a list of cells "a", "b" or "NaN", the missing value.       *)
(***************************************************************************)
Columns ==
  {c \in SeqsUpTo({"a", "b", "NaN"}, MaxColumnLen) : Len(c) > 0}

Occurrences(col, v) == Cardinality({i \in 1..Len(col) : col[i] = v})

\* SimpleImputer.fit: 'constant' keeps fill_value, 'most_frequent' the most
\* frequent value of the column, the smaller one when two are as frequent
ImputerStatistic(strategy, col) ==
  IF strategy = "constant" THEN "missing"
  ELSE IF Occurrences(col, "a") >= Occurrences(col, "b") THEN "a" ELSE "b"

\* SimpleImputer.transform
Impute(statistic, col) ==
  [i \in 1..Len(col) |-> IF col[i] = "NaN" THEN statistic ELSE col[i]]

ImputeInit ==
  /\ categorical_strategy = "most_frequent"
  /\ statistics_ = None
  /\ im_out = [op |-> "none"]

\* TabularPreprocessor(categorical_strategy=...)
ImputerConstructed ==
  \E strategy \in {"most_frequent", "constant"} :
    /\ categorical_strategy' = strategy
    /\ statistics_' = None
    /\ im_out' = [op |-> "none"]

\* fit: the pipeline fits the imputer on the column and encodes what the
\* imputer makes of it; the column holds a value
ImputerFit ==
  \E col \in Columns :
    /\ Range(col) # {"NaN"}
    /\ statistics_' = ImputerStatistic(categorical_strategy, col)
    /\ im_out' = [op |-> "fit", column |-> col,
                  imputed |-> Impute(ImputerStatistic(categorical_strategy, col), col)]
    /\ UNCHANGED categorical_strategy

\* transform: the fitted imputer fills the column before it is encoded
ImputerTransform ==
  /\ statistics_ # None
  /\ \E col \in Columns :
       im_out' = [op |-> "transform", column |-> col,
                  imputed |-> Impute(statistics_, col)]
  /\ UNCHANGED <<categorical_strategy, statistics_>>

(***************************************************************************)
(* TabularPreprocessor.transform_target / inverse_transform_target.        *)
(*                                                                         *)
(* A target is its dtype and its values; a value is [str |-> label] or     *)
(* [num |-> number].                                                       *)
(***************************************************************************)
Targets ==
  {[dtype |-> d, values |-> v] :
     d \in {"object", "category"},
     v \in {w \in SeqsUpTo({[str |-> "a"], [str |-> "b"]}, 2) : Len(w) > 0}}
  \cup
  {[dtype |-> d, values |-> v] :
     d \in {"int64", "float64"},
     v \in {w \in SeqsUpTo({[num |-> 0], [num |-> 1], [num |-> 2]}, 2) : Len(w) > 0}}

\* LabelEncoder.fit: classes_ are the sorted distinct labels
LabelClasses(values) ==
  LET S == Range(values)
      rank(c) == IF c.str = "a" THEN 1 ELSE 2
  IN  CHOOSE s \in [1..Cardinality(S) -> S] :
        \A i, j \in 1..Cardinality(S) : i < j => rank(s[i]) < rank(s[j])

TargetInit ==
  /\ target_encoder_ = <<>>
  /\ tt_y = [dtype |-> "none", values |-> <<>>]
  /\ tt_encoded = <<>>
  /\ tt_back = [status |-> "none"]

\* transform_target(y): an object or category target gets a new
\* LabelEncoder, every other target is returned as it is and the encoder of
\* an earlier call stays
TransformTarget ==
  \E y \in Targets :
    /\ tt_y' = y
    /\ tt_back' = [status |-> "none"]
    /\ IF y.dtype \in {"object", "category"}
       THEN /\ target_encoder_' = LabelClasses(y.values)
            /\ tt_encoded' =
                 [i \in 1..Len(y.values) |->
                    [num |-> IndexOf(LabelClasses(y.values), y.values[i]) - 1]]
       ELSE /\ tt_encoded' = y.values
            /\ UNCHANGED target_encoder_

\* inverse_transform_target(transform_target(y)): with an encoder the
\* numbers are looked up in classes_, a number that is no index raises
InverseTransformTarget ==
  /\ tt_y.dtype # "none"
  /\ tt_back' =
       IF target_encoder_ = <<>>
       THEN [status |-> "ok", values |-> tt_encoded]
       ELSE IF \E i \in 1..Len(tt_encoded) :
                 tt_encoded[i].num >= Len(target_encoder_)
       THEN [status |-> "raised", error |-> "ValueError"]
       ELSE [status |-> "ok",
             values |-> [i \in 1..Len(tt_encoded) |->
                           target_encoder_[tt_encoded[i].num + 1]]]
  /\ UNCHANGED <<target_encoder_, tt_y, tt_encoded>>

(***************************************************************************)
(* Explanation requests: SHAPExplainer, explain_prediction and             *)
(* get_global_shap.                                                        *)
(*                                                                         *)
(* The model has one feature.  A response carries the attribution values   *)
(* it reports and where they come from: shap, the model's                  *)
(* feature_importances_, or the random module.                             *)
(***************************************************************************)
ExplainInit ==
  /\ ex_env = [shap_available |-> TRUE, shap_raises |-> FALSE, shap_value |-> 0]
  /\ ex_model = [has_importances |-> FALSE]
  /\ ex_out = [route |-> "none"]

\* the installations, the models and shap's attribution for the input
ExplainInputs ==
  /\ ex_env \in [shap_available : BOOLEAN, shap_raises : BOOLEAN,
                 shap_value : {0, 1}]
  /\ ex_model \in {[has_importances |-> FALSE]}
                    \cup [has_importances : {TRUE}, feature_importances_ : {1, 2}]
  /\ ex_out = [route |-> "none"]

\* SHAPExplainer(model): raises ImportError without shap
SHAPExplainerInit ==
  /\ ex_out' = IF ex_env.shap_available
               THEN [route |-> "SHAPExplainer", status |-> "constructed",
                     values |-> <<>>, origin |-> "none"]
               ELSE [route |-> "SHAPExplainer", status |-> "ImportError",
                     values |-> <<>>, origin |-> "none"]
  /\ UNCHANGED <<ex_env, ex_model>>

\* explain_prediction: feature_importances_ if the model has them, with or
\* without shap; else shap; else an empty feature_importance, summary
\* 'Unknown', status 200
ExplainPrediction ==
  /\ ex_out' =
       IF ex_model.has_importances
       THEN [route |-> "explain_prediction", status |-> "200",
             values |-> <<ex_model.feature_importances_>>,
             origin |-> "feature_importances_"]
       ELSE IF ex_env.shap_available /\ ~ex_env.shap_raises
       THEN [route |-> "explain_prediction", status |-> "200",
             values |-> <<ex_env.shap_value>>, origin |-> "shap"]
       ELSE [route |-> "explain_prediction", status |-> "200",
             values |-> <<>>, origin |-> "none"]
  /\ UNCHANGED <<ex_env, ex_model>>

\* get_global_shap: random.uniform values for the feature names, no model
\* is loaded
GetGlobalShap ==
  /\ \E mean_shap \in {-1, 0, 1} :
       ex_out' = [route |-> "get_global_shap", status |-> "200",
                  values |-> <<mean_shap>>, origin |-> "random"]
  /\ UNCHANGED <<ex_env, ex_model>>

(***************************************************************************)
(* Two instances of TabularClassifier (TabularRegressor is alike) and the  *)
(* class attribute MODELS they read through self.MODELS.                   *)
(***************************************************************************)
Instances == {1, 2}

NotConstructed ==
  [constructed |-> FALSE, results |-> {}, trained_models |-> {},
   best_model_name |-> None]

SharedInit ==
  /\ XGBOOST_AVAILABLE = FALSE
  /\ class_MODELS = Range(MODELS("classifier"))
  /\ instances = [i \in Instances |-> NotConstructed]
  /\ actor = 0

\* the import of the module
SharedImported ==
  /\ XGBOOST_AVAILABLE \in BOOLEAN
  /\ class_MODELS = Range(MODELS("classifier"))
  /\ instances = [i \in Instances |-> NotConstructed]
  /\ actor = 0

\* TabularClassifier(): self.MODELS['xgboost'] = {...} writes into the
\* dict of the class; the other attributes are new objects
Construct(i) ==
  /\ class_MODELS' = IF XGBOOST_AVAILABLE THEN class_MODELS \cup {"xgboost"}
                     ELSE class_MODELS
  /\ instances' = [instances EXCEPT ![i] =
                     [constructed |-> TRUE, results |-> {},
                      trained_models |-> {}, best_model_name |-> None]]
  /\ actor' = i
  /\ UNCHANGED XGBOOST_AVAILABLE

\* train(X, y) with the default models_to_train = list(self.MODELS.keys()),
\* every candidate completing
TrainAll(i) ==
  /\ instances[i].constructed
  /\ \E best \in class_MODELS :
       instances' = [instances EXCEPT ![i] =
                       [constructed |-> TRUE, results |-> class_MODELS,
                        trained_models |-> @.trained_models \cup class_MODELS,
                        best_model_name |-> best]]
  /\ actor' = i
  /\ UNCHANGED <<XGBOOST_AVAILABLE, class_MODELS>>

\* a change of the roster through an instance: self.MODELS[name] = {...}
\* for a name it lacks, del self.MODELS[name] for one it has
ChangeRoster(i) ==
  /\ instances[i].constructed
  /\ \E name \in {"xgboost", "custom"} :
       class_MODELS' = IF name \in class_MODELS THEN class_MODELS \ {name}
                       ELSE class_MODELS \cup {name}
  /\ actor' = i
  /\ UNCHANGED <<XGBOOST_AVAILABLE, instances>>

InitPrep == TrainerInitOf("classifier") /\ PrepInit /\ DetectInit /\ BundleInit /\ PackageInit /\ RouteInit /\ IdentifyInit /\ ColumnsInit /\ ImputeInit /\ TargetInit /\ ExplainInit /\ SharedInit

NextPrep ==
  \/ FitNotAFrame /\ UNCHANGED notPrepVars
  \/ FitNoRows /\ UNCHANGED notPrepVars
  \/ FitCompleted /\ UNCHANGED notPrepVars
  \/ Transform /\ UNCHANGED notPrepVars

SpecPrep == InitPrep /\ [][NextPrep]_vars

InitIdentify ==
  /\ TrainerInitOf("classifier") /\ PrepInitOf("onehot") /\ DetectInit
  /\ BundleInit /\ PackageInit /\ RouteInit /\ IdentifyInputs /\ ColumnsInit /\ ImputeInit /\ TargetInit /\ ExplainInit /\ SharedInit

NextIdentify == IdentifyColumns /\ UNCHANGED notIdentifyVars

SpecIdentify == InitIdentify /\ [][NextIdentify]_vars

InitColumns ==
  /\ TrainerInitOf("classifier") /\ PrepInitOf("onehot") /\ DetectInit
  /\ BundleInit /\ PackageInit /\ RouteInit /\ IdentifyInit /\ ColumnsInit /\ ImputeInit /\ TargetInit /\ ExplainInit /\ SharedInit

NextColumns ==
  \/ FitColumns /\ UNCHANGED notColumnsVars
  \/ CombinedFitTransform /\ UNCHANGED notColumnsVars
  \/ TransformColumns /\ UNCHANGED notColumnsVars
  \/ CombinedTransform /\ UNCHANGED notColumnsVars

SpecColumns == InitColumns /\ [][NextColumns]_vars

InitImpute ==
  /\ TrainerInitOf("classifier") /\ PrepInitOf("onehot") /\ DetectInit
  /\ BundleInit /\ PackageInit /\ RouteInit /\ IdentifyInit /\ ColumnsInit
  /\ ImputeInit /\ TargetInit /\ ExplainInit /\ SharedInit

NextImpute ==
  \/ ImputerConstructed /\ UNCHANGED notImputeVars
  \/ ImputerFit /\ UNCHANGED notImputeVars
  \/ ImputerTransform /\ UNCHANGED notImputeVars

SpecImpute == InitImpute /\ [][NextImpute]_vars

InitTarget ==
  /\ TrainerInitOf("classifier") /\ PrepInitOf("onehot") /\ DetectInit
  /\ BundleInit /\ PackageInit /\ RouteInit /\ IdentifyInit /\ ColumnsInit
  /\ ImputeInit /\ TargetInit /\ ExplainInit /\ SharedInit

NextTarget ==
  \/ TransformTarget /\ UNCHANGED notTargetVars
  \/ InverseTransformTarget /\ UNCHANGED notTargetVars

SpecTarget == InitTarget /\ [][NextTarget]_vars

InitExplain ==
  /\ TrainerInitOf("classifier") /\ PrepInitOf("onehot") /\ DetectInit
  /\ BundleInit /\ PackageInit /\ RouteInit /\ IdentifyInit /\ ColumnsInit
  /\ ImputeInit /\ TargetInit /\ ExplainInputs /\ SharedInit

NextExplain ==
  \/ SHAPExplainerInit /\ UNCHANGED notExplainVars
  \/ ExplainPrediction /\ UNCHANGED notExplainVars
  \/ GetGlobalShap /\ UNCHANGED notExplainVars

SpecExplain == InitExplain /\ [][NextExplain]_vars

InitShared ==
  /\ TrainerInitOf("classifier") /\ PrepInitOf("onehot") /\ DetectInit
  /\ BundleInit /\ PackageInit /\ RouteInit /\ IdentifyInit /\ ColumnsInit
  /\ ImputeInit /\ TargetInit /\ ExplainInit /\ SharedImported

NextShared ==
  \/ (\E i \in Instances : Construct(i)) /\ UNCHANGED notSharedVars
  \/ (\E i \in Instances : TrainAll(i)) /\ UNCHANGED notSharedVars
  \/ (\E i \in Instances : ChangeRoster(i)) /\ UNCHANGED notSharedVars

SpecShared == InitShared /\ [][NextShared]_vars

InitDetect == TrainerInitOf("classifier") /\ PrepInitOf("onehot") /\ DetectInit /\ BundleInit /\ PackageInit /\ RouteInit /\ IdentifyInit /\ ColumnsInit /\ ImputeInit /\ TargetInit /\ ExplainInit /\ SharedInit

NextDetect == DetectCall /\ UNCHANGED notDetectVars

SpecDetect == InitDetect /\ [][NextDetect]_vars

InitBundle ==
  TrainerInitOf("classifier") /\ PrepInitOf("onehot") /\ DetectInit /\ BundleInit /\ PackageInit /\ RouteInit /\ IdentifyInit /\ ColumnsInit /\ ImputeInit /\ TargetInit /\ ExplainInit /\ SharedInit

NextBundle ==
  \/ RunTrainingPipeline /\ UNCHANGED notBundleVars
  \/ LoaderLoadModel /\ UNCHANGED notBundleVars
  \/ LoaderPredict /\ UNCHANGED notBundleVars
  \/ TrainerPredict /\ UNCHANGED notBundleVars

SpecBundle == InitBundle /\ [][NextBundle]_vars

InitPackage ==
  TrainerInitOf("classifier") /\ PrepInitOf("onehot") /\ DetectInit /\ BundleInit /\ PackageInit /\ RouteInit /\ IdentifyInit /\ ColumnsInit /\ ImputeInit /\ TargetInit /\ ExplainInit /\ SharedInit

NextPackage ==
  \/ PackageReturns /\ UNCHANGED notPackageVars
  \/ PackageRaises /\ UNCHANGED notPackageVars
  \/ Tick /\ UNCHANGED notPackageVars

SpecPackage == InitPackage /\ [][NextPackage]_vars

InitRoute ==
  /\ TrainerInitOf("classifier") /\ PrepInitOf("onehot") /\ DetectInit
  /\ BundleInit /\ PackageInit /\ RouteInit /\ IdentifyInit /\ ColumnsInit /\ ImputeInit /\ TargetInit /\ ExplainInit /\ SharedInit

NextRoute ==
  \/ StartTraining /\ UNCHANGED notRouteVars
  \/ TaskTargetMissing /\ UNCHANGED notRouteVars
  \/ TaskPrepareRaises /\ UNCHANGED notRouteVars
  \/ TaskPrepared /\ UNCHANGED notRouteVars
  \/ TaskCandidateCompleted /\ UNCHANGED notRouteVars
  \/ TaskCandidateFailed /\ UNCHANGED notRouteVars
  \/ TaskUpdateExperiment /\ UNCHANGED notRouteVars
  \/ TaskPackage /\ UNCHANGED notRouteVars
  \/ TaskNoPackage /\ UNCHANGED notRouteVars
  \/ TaskFinalEnsure /\ UNCHANGED notRouteVars
  \/ CancelTraining /\ UNCHANGED notRouteVars

SpecRoute == InitRoute /\ [][NextRoute]_vars

Init == TrainerInit /\ PrepInitOf("onehot") /\ DetectInit /\ BundleInit /\ PackageInit /\ RouteInit /\ IdentifyInit /\ ColumnsInit /\ ImputeInit /\ TargetInit /\ ExplainInit /\ SharedInit

Next ==
  \/ TrainStart /\ UNCHANGED notTrainerVars
  \/ TrainSplitRaises /\ UNCHANGED notTrainerVars
  \/ CandidateSkipped /\ UNCHANGED notTrainerVars
  \/ CandidateCompleted /\ UNCHANGED notTrainerVars
  \/ CandidateFailed /\ UNCHANGED notTrainerVars
  \/ TrainReturn /\ UNCHANGED notTrainerVars
  \/ ClusterTrainStart /\ UNCHANGED notTrainerVars
  \/ ClusterScalerRaises /\ UNCHANGED notTrainerVars
  \/ KMeansCompleted /\ UNCHANGED notTrainerVars
  \/ KMeansFailed /\ UNCHANGED notTrainerVars
  \/ DbscanCompleted /\ UNCHANGED notTrainerVars
  \/ DbscanFailed /\ UNCHANGED notTrainerVars
  \/ ClusterReturn /\ UNCHANGED notTrainerVars

Spec == Init /\ [][Next]_vars

(***************************************************************************)
(* Properties of the trainers.                                             *)
(***************************************************************************)
CompletedScores(rs) == {Score(rs[i]) : i \in Completed(rs)}

MaxOf(S) == CHOOSE m \in S : \A x \in S : x <= m

\* the first completed result that reaches the maximum score
FirstAtMax(rs) ==
  CHOOSE i \in Completed(rs) :
    /\ Score(rs[i]) = MaxOf(CompletedScores(rs))
    /\ \A j \in Completed(rs) : j < i => Score(rs[j]) < Score(rs[i])

Returned == pc = "idle" /\ ret.status = "returned"

\* C1: after train() of a fresh classifier or regressor in which at least one
\* candidate completed, the returned best_model is the first completed
\* candidate that reaches the maximum mean CV score, and best_score is that
\* maximum.
C1_BestIsFirstMaximum ==
  (Returned /\ Supervised /\ call = "first" /\ Completed(results) # {}) =>
    /\ ret.best_score = MaxOf(CompletedScores(results))
    /\ ret.best_model = results[FirstAtMax(results)].model_name
    /\ best_model = [name |-> ret.best_model, made |-> "this"]

\* the requested candidates that train() does not skip
KnownRequested ==
  {i \in 1..Len(models_to_train) : models_to_train[i] \in Range(MODELS(kind))}

\* how many candidates the clusterer's call trains
ClusterCandidates ==
  (IF n_clusters_range[2] >= n_clusters_range[1]
   THEN n_clusters_range[2] - n_clusters_range[1] + 1 ELSE 0)
  + (IF include_dbscan THEN 1 ELSE 0)

InTrain == pc \in {"loop", "kmeans", "return"}

\* C2: a step that records a failed candidate records exactly one result, for
\* the candidate at hand and with its error, leaves best_model, best_model_name
\* and best_score unchanged and stays inside train(); no step inside train()
\* makes train() raise; and when train() returns every candidate it was asked
\* for and knows has its result.
C2_FailureIsIsolated ==
  [][/\ (Len(results') = Len(results) + 1 /\ Last(results').status = "failed")
          => /\ best_model' = best_model
             /\ best_model_name' = best_model_name
             /\ best_score' = best_score
             /\ SubSeq(results', 1, Len(results)) = results
             /\ "error" \in DOMAIN Last(results')
             /\ Last(results').model_name =
                  (IF Supervised THEN models_to_train[idx]
                   ELSE IF n_clusters <= n_clusters_range[2]
                        THEN KMeansName(n_clusters) ELSE "dbscan")
             /\ InTrain'
     /\ InTrain => ret'.status # "raised"
     /\ (InTrain /\ pc' = "idle")
          => /\ ret'.status = "returned"
             /\ Len(results) =
                  (IF Supervised THEN Cardinality(KnownRequested)
                   ELSE ClusterCandidates)
    ]_vars

\* a returned run in which a candidate failed and a later candidate completed
C2_Witness ==
  /\ Returned
  /\ \E i, j \in 1..Len(results) :
       i < j /\ results[i].status = "failed" /\ results[j].status = "completed"

\* C3: a train() call that returns normally has at least one completed
\* candidate (a run in which every candidate fails, or none is trained, ends
\* with an aggregate error instead).
C3_NoSuccessWithoutCompleted ==
  Returned => Completed(results) # {}

Transformed == t_out.status # "none"

\* the encoding the claim gives a cell absent from the fitted vocabulary
Fallback(mode, classes) ==
  IF mode = "onehot" THEN [j \in 1..Len(classes) |-> 0] ELSE <<0>>

\* C5: on a fitted preprocessor, transform of a table with rows does not
\* raise, and every cell absent from the fitted vocabulary encodes to the
\* all-zero vector (one-hot) or to the code of the first learned class
\* (label).
C5_UnseenCategoryFallback ==
  (/\ Transformed
   /\ column_transformer_.state = "fitted"
   /\ t_out.call.frame
   /\ Len(t_out.call.rows) > 0)
    => /\ t_out.status = "ok"
       /\ \A i \in 1..Len(t_out.call.rows) :
            t_out.call.rows[i] \notin Range(column_transformer_.classes)
              => t_out.matrix[i] =
                   Fallback(encode_categorical, column_transformer_.classes)

\* C6: transform raises whenever no fit has completed on the instance, and
\* once a fit has completed transform raises no not-fitted error.
C6_NotFittedOnlyBeforeFit ==
  Transformed =>
    /\ ~fit_completed => t_out.status = "raised"
    /\ fit_completed =>
         ~(t_out.status = "raised" /\ t_out.error = "not_fitted")

(***************************************************************************)
(* Properties of the detector.                                             *)
(***************************************************************************)
Detected == d_out.status # "none"

\* the label and confidence the rule list gives a target
RuleList(in) ==
  IF in.unique_count <= 20 /\ in.unique_count * 100 < 5 * in.n_rows
  THEN IF in.unique_count = 2 THEN DReturned("binary_classification", 95)
       ELSE DReturned("multiclass_classification", 90)
  ELSE IF in.dtype \in {"int64", "float64"} THEN DReturned("regression", 90)
  ELSE IF in.dtype = "object" /\ in.unique_count <= 50
  THEN DReturned("multiclass_classification", 70)
  ELSE DReturned("regression", 50)

\* C7: for a table with a target and no column detected as date-like,
\* detect() returns what the rule list gives: binary/0.95 or multiclass/0.9
\* under the thresholds, else regression/0.9 for a numeric target, else
\* multiclass/0.7 for a text target with at most 50 uniques, else
\* regression/0.5.
C7_TargetRules ==
  (Detected /\ d_in.has_target /\ ~IsTimeseries(d_in)) => d_out = RuleList(d_in)

\* C8: without a target detect() returns clustering/0.8 for every table; with
\* a target and a date-like column whose sample parses it returns
\* timeseries/0.9 whatever the target.
C8_Precedence ==
  Detected =>
    /\ ~d_in.has_target => d_out = DReturned("clustering", 80)
    /\ (d_in.has_target /\ IsTimeseries(d_in))
         => d_out = DReturned("timeseries", 90)

\* C9: detect() never raises: it returns a problem_type and a confidence for
\* every table and target.
C9_DetectNeverRaises ==
  Detected =>
    /\ d_out.status = "returned"
    /\ d_out.problem_type \in
         {"clustering", "timeseries", "binary_classification",
          "multiclass_classification", "regression"}
    /\ d_out.confidence \in {95, 90, 80, 70, 50}

(***************************************************************************)
(* Properties of the package round trip.                                   *)
(***************************************************************************)
\* C10: for every best model a trainer selected, the loader's load_model()
\* and predict() on a training row give the prediction the best model in
\* memory gives for that row.
C10_BundleRoundTrip ==
  (/\ b_trainer.best_model # NoBest
   /\ b_mem # Absent /\ b_ld # Absent
   /\ b_mem.row = b_ld.row)
    => /\ b_mem.status = "ok"
       /\ b_ld.status = "ok"
       /\ b_ld.value = b_mem.value

(***************************************************************************)
(* Properties of ModelPackager.package.                                    *)
(***************************************************************************)
\* the artifacts of the fixed layout (the preprocessor is always a .pkl)
Layout(fmt) ==
  {ModelFile(fmt), "preprocessor.pkl", "feature_schema.json", "ui_schema.json",
   "metadata.json", "model_info.json", "loader.py", "streamlit_app.py",
   "requirements.txt"}

\* C11: every directory package() returns holds all artifacts of the layout,
\* for every model_format and preprocessor argument, and every file the
\* generated loader and app open by name was written by that call.
C11_LayoutComplete ==
  p_last.status = "returned" =>
    LET files == fs[p_last.dir].files
    IN  /\ Layout(p_last.call.model_format) \subseteq DOMAIN files
        /\ files["loader.py"].opens \subseteq Written(p_last.call)
        /\ files["streamlit_app.py"].opens \subseteq Written(p_last.call)

SameInputs(c1, c2) ==
  /\ c1.model_format = c2.model_format
  /\ c1.preprocessor = c2.preprocessor
  /\ c1.metadata = c2.metadata
  /\ c1.feature_schema = c2.feature_schema

\* a file's value with the timestamp of metadata.json left out
SansStamp(file, value) ==
  IF file = "metadata.json"
  THEN [k \in DOMAIN value \ {"packaged_at"} |-> value[k]] ELSE value

\* C12: two package() calls with identical inputs into two directories give
\* identical feature_schema.json and ui_schema.json, and bundles that differ
\* in nothing except the timestamps inside metadata.json.
C12_DeterministicBundle ==
  (/\ p_prev.status = "returned" /\ p_last.status = "returned"
   /\ SameInputs(p_prev.call, p_last.call)
   /\ p_prev.dir # p_last.dir)
    => LET a == fs[p_prev.dir].files
           b == fs[p_last.dir].files
       IN  /\ DOMAIN a = DOMAIN b
           /\ \A f \in DOMAIN a \cap DOMAIN b : SansStamp(f, a[f]) = SansStamp(f, b[f])

\* C13: a package() call that raises leaves nothing at the output location:
\* no directory and no file that was not there before the call.
C13_AllOrNothing ==
  [][(p_calls' = p_calls + 1 /\ p_last'.status = "raised") => fs' = fs]_vars

(***************************************************************************)
(* Properties of the training pipelines.                                   *)
(***************************************************************************)
\* the first candidate whose mean cross-validation score is the maximum
CvWinner(cvs) ==
  cvs[CHOOSE i \in 1..Len(cvs) :
        /\ \A j \in 1..Len(cvs) : cvs[j].cv_score_mean <= cvs[i].cv_score_mean
        /\ \A j \in 1..(i - 1) : cvs[j].cv_score_mean < cvs[i].cv_score_mean].model

\* C14: the estimator handed to package() and stored as the experiment's
\* best model is the candidate with the highest mean cross-validation score.
C14_CvSelectedWinner ==
  (rt_pc \in {"package", "ensure", "done"} /\ Len(rt_cv) > 0)
    => /\ rt_experiment.best_model_name = CvWinner(rt_cv)
       /\ rt_packaged # None => rt_packaged = CvWinner(rt_cv)

(***************************************************************************)
(* Order and completeness of the results; the clusterer's selection.       *)
(***************************************************************************)
RosterPos(name) == CHOOSE i \in 1..Len(MODELS(kind)) : MODELS(kind)[i] = name

\* C15: within one train() call the candidates are trained, and their
\* results recorded, in the order of the MODELS table, also when a subset is
\* passed in another order.
C15_RosterOrder ==
  Supervised =>
    \A i, j \in 1..Len(results) :
      i < j => RosterPos(results[i].model_name) <= RosterPos(results[j].model_name)

\* the loop of train() is through and train() is about to return
LoopDone == Supervised /\ pc = "loop" /\ idx > Len(models_to_train)

\* C16: train() returns exactly one result per requested candidate, each
\* 'completed' or 'failed' with its cause: none is missing, none appears
\* twice.
C16_OneResultPerCandidate ==
  LoopDone =>
    /\ Len(results) = Len(models_to_train)
    /\ \A i \in 1..Len(results) :
         /\ results[i].status \in {"completed", "failed"}
         /\ results[i].status = "failed" => "error" \in DOMAIN results[i]
    /\ \A n \in Range(models_to_train) :
         Cardinality({i \in 1..Len(results) : results[i].model_name = n}) = 1

\* C17: a DBSCAN run with fewer than 2 clusters reports silhouette -1, the
\* call does not raise, and train() does not return DBSCAN as best_model
\* when another candidate of the call completed.
C17_SentinelNeverBest ==
  (kind = "clusterer" /\ (pc = "return" \/ Returned)) =>
    \A i \in 1..Len(results) :
      (/\ results[i].model_name = "dbscan" /\ results[i].status = "completed"
       /\ results[i].n_clusters < 2)
        => /\ results[i].silhouette_score = SilhouetteSentinel
           /\ ret.status # "raised"
           /\ (Returned /\ \E j \in Completed(results) : j # i)
                => ret.best_model # "dbscan"

\* the completed k-means results
KMeansCompletedIn(rs) == {i \in Completed(rs) : rs[i].model_name # "dbscan"}

\* the sweep of a first call is through
SweepDone ==
  /\ kind = "clusterer" /\ call = "first"
  /\ \/ pc = "kmeans" /\ n_clusters > n_clusters_range[2]
     \/ pc = "return"
     \/ Returned

\* C18: on a fresh clusterer the k-means candidate kept by the sweep is the
\* completed k with the maximum silhouette, the smallest such k on ties, and
\* best_score is at least that silhouette; only DBSCAN can replace it.
C18_KMeansMaximizer ==
  (SweepDone /\ KMeansCompletedIn(results) # {}) =>
    LET km == KMeansCompletedIn(results)
        top == CHOOSE i \in km :
                 /\ \A j \in km : Score(results[j]) <= Score(results[i])
                 /\ \A j \in km : j < i => Score(results[j]) < Score(results[i])
    IN  /\ best_score >= Score(results[top])
        /\ best_model_name # "dbscan"
             => /\ best_model_name = results[top].model_name
                /\ best_score = Score(results[top])
        /\ (pc = "kmeans") => best_model_name = results[top].model_name

\* a fresh clusterer whose sweep completed two k with the same silhouette
C18_Witness ==
  /\ SweepDone /\ Returned
  /\ \E i, j \in KMeansCompletedIn(results) :
       /\ i < j /\ Score(results[i]) = Score(results[j])
       /\ Score(results[i]) = best_score
       /\ best_model_name = results[i].model_name

(***************************************************************************)
(* The preprocessor's column lists and its state under transform.          *)
(***************************************************************************)
NumericDtypes == {"int64", "int32", "float64", "float32", "int16", "float16"}

Listed(names, n) == \E i \in 1..Len(names) : names[i] = n

\* _identify_columns has run on the frame
Identified == Len(ic_numeric) + Len(ic_categorical) = Len(ic_X.columns)

\* C19: at fit a numeric column is categorical exactly when its unique count
\* is <= 10 and below 5% of the rows; every other numeric column, whatever
\* its numeric dtype, is numeric; every other column is categorical; each
\* column is in exactly one of the two lists.
C19_ColumnClassification ==
  Identified =>
  \A i \in 1..Len(ic_X.columns) :
    LET col == ic_X.columns[i]
        n == ColumnNames[i]
        few == col.nunique <= 10 /\ col.nunique * 100 < 5 * ic_X.n_rows
    IN  /\ Listed(ic_numeric, n) # Listed(ic_categorical, n)
        /\ Cardinality({k \in 1..Len(ic_numeric) : ic_numeric[k] = n})
             + Cardinality({k \in 1..Len(ic_categorical) : ic_categorical[k] = n}) = 1
        /\ col.dtype \in NumericDtypes => (Listed(ic_categorical, n) <=> few)
        /\ col.dtype \notin NumericDtypes => Listed(ic_categorical, n)

\* the fitted state of the preprocessor
PreprocessingState ==
  <<encode_categorical, numeric_columns_, categorical_columns_,
    column_transformer_, feature_names_out_>>

\* C20: transform on a fitted preprocessor leaves the fitted state as it is,
\* and transform of the same input in the state it leaves returns the
\* identical matrix.
C20_TransformKeepsState ==
  [][(fit_completed /\ t_out'.status # "none" /\ t_out' # t_out)
       => /\ PreprocessingState' = PreprocessingState
          /\ fit_completed'
          /\ \E X \in Tables :
               /\ t_out'.call = X
               /\ t_out' = [call |-> X] @@ TransformResult(X)']_vars

\* a fitted preprocessor has transformed a table with a value absent from
\* its vocabulary
C20_Witness ==
  /\ fit_completed /\ column_transformer_.state = "fitted"
  /\ t_out.status = "ok"
  /\ \E i \in 1..Len(t_out.call.rows) :
       t_out.call.rows[i] \notin Range(column_transformer_.classes)

\* the frame X without the columns that were not fitted
Restricted(X) ==
  [c \in DOMAIN X \cap DOMAIN cp_fit.mean_ |-> X[c]]

\* what the preprocessor at hand gives for the frame X
TransformOf(X) ==
  IF cp_kind = "TabularPreprocessor"
  THEN ColumnTransformerTransform(cp_fit, X)
  ELSE CombinedTransformResult(cp_fit, X)

\* C21: transform on a fitted preprocessor does not raise for a frame that
\* lacks a fitted column, the column is filled with a default, and columns
\* not seen at fit do not change the output.
C21_MissingAndExtraColumns ==
  cp_out.status # "none" =>
    /\ cp_out.status = "ok"
    /\ Len(cp_out.row) = Len(cp_fit.columns)
    /\ TransformOf(cp_out.call) = TransformOf(Restricted(cp_out.call))

\* C22: with the default configuration a missing value of a categorical
\* column is replaced by the placeholder 'missing' before encoding, at fit
\* and at transform, not by a value taken from the data.
C22_SentinelPlaceholder ==
  (categorical_strategy = "most_frequent" /\ im_out.op # "none") =>
    \A i \in 1..Len(im_out.column) :
      im_out.column[i] = "NaN" => im_out.imputed[i] = "missing"

\* C23: inverse_transform_target(transform_target(y)) is y on the same
\* preprocessor, whatever it transformed before: a label target is encoded
\* to the integers 0..k-1, every other target is returned unchanged.
C23_TargetRoundTrip ==
  /\ tt_y.dtype \in {"object", "category"}
       => {tt_encoded[i].num : i \in 1..Len(tt_encoded)}
            = 0..(Cardinality(Range(tt_y.values)) - 1)
  /\ tt_y.dtype \in {"int64", "float64"} => tt_encoded = tt_y.values
  /\ tt_back.status # "none"
       => tt_back.status = "ok" /\ tt_back.values = tt_y.values

\* C24: when shap is unavailable or raises, an explanation request reports
\* the model's feature_importances_ if it has them and no attribution
\* otherwise; no response reports made-up values.
C24_ExplainFallback ==
  ex_out.route # "none" =>
    /\ ex_out.origin # "random"
    /\ (~ex_env.shap_available \/ ex_env.shap_raises) =>
         IF ex_out.route = "SHAPExplainer" THEN ex_out.values = <<>>
         ELSE IF ex_model.has_importances
         THEN ex_out.values = <<ex_model.feature_importances_>>
         ELSE ex_out.values = <<>>

\* what a constructed instance observes: its roster, results, trained models
\* and best model
Observes(j) == <<class_MODELS, instances[j]>>

\* C25: no operation on one trainer instance (construction, train, a change
\* of its roster) changes the roster, results, trained models or best model
\* another instance observes.
C25_NoSharedState ==
  [][\A j \in Instances :
       (instances[j].constructed /\ actor' # j) => Observes(j)' = Observes(j)]_vars

\* C26: the dictionary TabularClusterer.train returns holds the keys
\* 'best_model' and 'n_clusters'.
C26_ClustererReturnKeys ==
  (kind = "clusterer" /\ Returned)
    => {"best_model", "n_clusters"} \subseteq DOMAIN ret

\* C27: the best model and best score a train() call returns belong to a
\* candidate that completed in that call, also on an instance that has
\* trained before; when none completed in the call, no best model is
\* returned.
C27_NoCarryOver ==
  Returned =>
    IF Completed(results) = {}
    THEN ret.best_model = None
    ELSE ret.best_model # None =>
           /\ best_model.made = "this"
           /\ \E i \in Completed(results) :
                /\ results[i].model_name = ret.best_model
                /\ Score(results[i]) = ret.best_score

\* C28: once cancel_training has set the status 'cancelled', no step of the
\* training thread sets it to 'completed' or 'failed', whenever the cancel
\* request falls between the thread's steps.
C28_CancelledStays ==
  [][rt_experiment.status = "cancelled"
       => rt_experiment'.status \notin {"completed", "failed"}]_vars

\* C29: two package() calls on one output directory write to distinct
\* bundle directories, also with the same model name within one second.
C29_DistinctBundleDirs ==
  (p_prev.status = "returned" /\ p_last.status = "returned")
    => p_prev.dir # p_last.dir

\* C30: package() leaves its inputs unchanged: after the call the caller's
\* metadata holds what it held when it was passed.
C30_InputsUnchanged ==
  [][p_calls' = p_calls + 1 => caller_metadata' = p_last'.call.metadata]_vars

====
